---- MODULE Spec2Model ----
(***************************************************************************)
(* SHA-512 compression arithmetization (sha512-halo2).                     *)
(*                                                                         *)
(* Three state machines over the same definitions:                         *)
(*   Spec      the compression driver: initialize_with_iv /                *)
(*             initialize_with_state, message_schedule.process, compress    *)
(*             (one assign_round per step) and digest;                      *)
(*   SpecReentrant  the driver under a layouter that invokes a region       *)
(*             closure more than once;                                      *)
(*   SpecGate  the gate library and the witness functions applied to words  *)
(*             drawn from bounded sample sets.                              *)
(*                                                                         *)
(* Integers (u64, u128, field elements) are little-endian sequences of     *)
(* base-2^16 limbs without leading zero limbs; bit arrays ([bool; N]) are  *)
(* sequences of BOOLEAN, index i+1 holding bit i.                          *)
(***************************************************************************)
EXTENDS Integers, Sequences, FiniteSets, TLC

VARIABLES
    pc,          \* position of the caller: which public operation comes next
    msg,         \* which test message is being hashed
    blk,         \* index of the block being compressed (1-based)
    init_state,  \* the State passed to compress (initialized_state)
    state,       \* the State variable of compress / the State handed to digest
    round_idx,   \* number of assign_round calls done in the running compress
    w_halves,    \* the 80 round words of the current block
    cells,       \* the cells assigned by the last assign_round
    digest,      \* the value returned by digest
    ret,         \* the Result the last finished operation returned
    invocations, \* times the layouter has invoked the running region closure
    gop,         \* SpecGate: the operation applied last
    gin,         \* SpecGate: its input words
    gout         \* SpecGate: its result

vars == <<pc, msg, blk, init_state, state, round_idx, w_halves, cells, digest,
          ret, invocations, gop, gin, gout>>

driver_vars == <<pc, msg, blk, init_state, state, round_idx, w_halves, cells, digest,
                 ret, invocations>>

gate_vars == <<gop, gin, gout>>

(***************************************************************************)
(* Unsigned integer arithmetic on limb sequences                           *)
(***************************************************************************)
Base == 2^16

Max(a, b) == IF a < b THEN b ELSE a

Min(a, b) == IF a < b THEN a ELSE b

\* TRUE of every sequence.  An operator that tests it first evaluates its
\* argument before its own body, which keeps nested conversions shallow.
Evaluated(s) == Len(s) >= 0

RECURSIVE Norm(_)
Norm(n) ==
    IF Len(n) = 0 THEN <<>>
    ELSE IF n[Len(n)] = 0 THEN Norm(SubSeq(n, 1, Len(n) - 1))
    ELSE n

Limb(n, i) == IF i <= Len(n) THEN n[i] ELSE 0

Zero == <<>>

One == <<1>>

RECURSIVE AddFrom(_, _, _, _, _)
AddFrom(a, b, i, c, acc) ==
    IF i > Max(Len(a), Len(b))
    THEN (IF c = 0 THEN acc ELSE Append(acc, c))
    ELSE LET s == Limb(a, i) + Limb(b, i) + c
         IN  AddFrom(a, b, i + 1, s \div Base, Append(acc, s % Base))

NumAdd(a, b) ==
    IF Evaluated(a) /\ Evaluated(b) THEN Norm(AddFrom(a, b, 1, 0, <<>>)) ELSE Zero

RECURSIVE SubFrom(_, _, _, _, _)
SubFrom(a, b, i, br, acc) ==
    IF i > Len(a) THEN acc
    ELSE LET d == Limb(a, i) - Limb(b, i) - br
         IN  SubFrom(a, b, i + 1, IF d < 0 THEN 1 ELSE 0,
                     Append(acc, IF d < 0 THEN d + Base ELSE d))

\* a - b for a >= b
NumSub(a, b) ==
    IF Evaluated(a) /\ Evaluated(b) THEN Norm(SubFrom(a, b, 1, 0, <<>>)) ELSE Zero

RECURSIVE LtFrom(_, _, _)
LtFrom(a, b, i) ==
    IF i = 0 THEN FALSE
    ELSE IF a[i] # b[i] THEN a[i] < b[i]
    ELSE LtFrom(a, b, i - 1)

NumLt(a, b) == IF Len(a) # Len(b) THEN Len(a) < Len(b) ELSE LtFrom(a, b, Len(a))

NumLeq(a, b) == a = b \/ NumLt(a, b)

RECURSIVE MulFrom(_, _, _, _, _)
MulFrom(a, m, i, c, acc) ==
    IF i > Len(a)
    THEN (IF c = 0 THEN acc ELSE Append(acc, c))
    ELSE LET p == a[i] * m + c
         IN  MulFrom(a, m, i + 1, p \div Base, Append(acc, p % Base))

\* a * 2^k  (the gates' F::from_u64(1 << k) and F::from_u128(1 << k) factors)
Shl(a, k) ==
    IF Evaluated(a)
    THEN Norm([i \in 1..(k \div 16) |-> 0] \o MulFrom(a, 2^(k % 16), 1, 0, <<>>))
    ELSE Zero

\* a small non-negative integer as a number
NumOf(k) == Norm(<<k % Base, k \div Base>>)

RECURSIVE NumSum(_)
NumSum(s) == IF Len(s) = 0 THEN Zero ELSE NumAdd(s[1], NumSum(Tail(s)))

\* n mod 2^(16*k), n div 2^(16*k)
LowLimbs(n, k) == Norm(SubSeq(n, 1, Min(k, Len(n))))

HighLimbs(n, k) == IF Len(n) <= k THEN Zero ELSE SubSeq(n, k + 1, Len(n))

(***************************************************************************)
(* Bit arrays and their integer values                                     *)
(***************************************************************************)
RECURSIVE BitsVal(_, _, _)
BitsVal(bits, lo, hi) ==
    IF lo > hi THEN 0
    ELSE IF lo = hi THEN (IF bits[lo] THEN 1 ELSE 0)
    ELSE LET mid == (lo + hi) \div 2
         IN  BitsVal(bits, lo, mid) + 2^(mid - lo + 1) * BitsVal(bits, mid + 1, hi)

\* little-endian bit array to integer
lebs2ip(bits) ==
    LET k == (Len(bits) + 15) \div 16
    IN  IF Evaluated(bits)
        THEN Norm(SubSeq([j \in 1..k |->
                             BitsVal(bits, 16 * (j - 1) + 1, Min(16 * j, Len(bits)))],
                         1, k))
        ELSE Zero

\* integer to little-endian bit array of NUM_BITS bits
i2lebsp(int, NUM_BITS) ==
    IF Evaluated(int)
    THEN SubSeq([i \in 1..NUM_BITS |->
                    (Limb(int, ((i - 1) \div 16) + 1) \div 2^((i - 1) % 16)) % 2 = 1],
                1, NUM_BITS)
    ELSE <<>>

(***************************************************************************)
(* Spread encoding                                                         *)
(***************************************************************************)
\* the spread form of a bit array: bit i at position 2i, the odd positions 0;
\* the bits before position first are left out
SpreadBits(bits, first) ==
    SubSeq([j \in 1..(2 * Len(bits)) |->
               /\ j % 2 = 1
               /\ (j + 1) \div 2 >= first
               /\ bits[(j + 1) \div 2]],
           1, 2 * Len(bits))

\* faulty variant of spread: bit 0 of x is dropped
spread_skip_bit0(x, n) == lebs2ip(SpreadBits(i2lebsp(x, n), 2))

\* spread(x) = sum of bit_i * 4^i over the n bits of x
spread(x, n) == lebs2ip(SpreadBits(i2lebsp(x, n), 1))

\* the bits at even positions 0, 2, 4, ... and at odd positions 1, 3, 5, ...
even_bits(bits) ==
    SubSeq([i \in 1..(Len(bits) \div 2) |-> bits[2 * i - 1]], 1, Len(bits) \div 2)

odd_bits(bits) ==
    SubSeq([i \in 1..(Len(bits) \div 2) |-> bits[2 * i]], 1, Len(bits) \div 2)

\* despread reads the even-position bits of a 2n-bit spread value
despread(s, n) == lebs2ip(even_bits(i2lebsp(s, 2 * n)))

\* SpreadVar<DENSE, SPREAD>: a dense bit array with its spread form
SpreadVar(dense) ==
    [dense  |-> dense,
     spread |-> i2lebsp(spread(lebs2ip(dense), Len(dense)), 2 * Len(dense))]

\* val[range] for a Range start..end (end exclusive) over 0-based bit positions
Slice(val, range) == SubSeq(val, range[1] + 1, range[2])

(***************************************************************************)
(* AbcdVar: the (28, 6, 5, 25)-bit pieces of an A/B/C/D word               *)
(***************************************************************************)
AbcdVar_a_lo_range == <<0, 14>>

AbcdVar_a_hi_range == <<14, 28>>

AbcdVar_b_lo_range == <<28, 31>>

AbcdVar_b_hi_range == <<31, 34>>

AbcdVar_c_lo_range == <<34, 36>>

\* faulty variant of c_hi_range: bit 38 belongs to no piece
AbcdVar_c_hi_range_short == <<36, 38>>

AbcdVar_c_hi_range == <<36, 39>>

AbcdVar_d_lo_range == <<39, 53>>

AbcdVar_d_hi_range == <<53, 64>>

\* the ranges in piece order, and the <DENSE, SPREAD> widths the struct
\* declares for the pieces
AbcdVar_ranges ==
    << AbcdVar_a_lo_range, AbcdVar_a_hi_range, AbcdVar_b_lo_range,
       AbcdVar_b_hi_range, AbcdVar_c_lo_range, AbcdVar_c_hi_range,
       AbcdVar_d_lo_range, AbcdVar_d_hi_range >>

AbcdVar_declared ==
    << <<14, 28>>, <<14, 28>>, <<3, 6>>, <<3, 6>>, <<2, 4>>, <<3, 6>>,
       <<14, 28>>, <<11, 22>> >>

AbcdVar_pieces(val) ==
    LET bits == i2lebsp(val, 64)
    IN  << Slice(bits, AbcdVar_a_lo_range), Slice(bits, AbcdVar_a_hi_range),
           Slice(bits, AbcdVar_b_lo_range), Slice(bits, AbcdVar_b_hi_range),
           Slice(bits, AbcdVar_c_lo_range), Slice(bits, AbcdVar_c_hi_range),
           Slice(bits, AbcdVar_d_lo_range), Slice(bits, AbcdVar_d_hi_range) >>

AbcdVar(val) ==
    LET p == AbcdVar_pieces(val)
    IN  [a_lo |-> SpreadVar(p[1]), a_hi |-> SpreadVar(p[2]),
         b_lo |-> SpreadVar(p[3]), b_hi |-> SpreadVar(p[4]),
         c_lo |-> SpreadVar(p[5]), c_hi |-> SpreadVar(p[6]),
         d_lo |-> SpreadVar(p[7]), d_hi |-> SpreadVar(p[8])]

AbcdVar_spread_a(v) == v.a_lo.spread \o v.a_hi.spread

AbcdVar_spread_b(v) == v.b_lo.spread \o v.b_hi.spread

AbcdVar_spread_c(v) == v.c_lo.spread \o v.c_hi.spread

AbcdVar_spread_d(v) == v.d_lo.spread \o v.d_hi.spread

(***************************************************************************)
(* EfghVar: the (14, 4, 23, 23)-bit pieces of an E/F/G/H word              *)
(***************************************************************************)
EfghVar_a_range == <<0, 14>>

EfghVar_b_lo_range == <<14, 16>>

EfghVar_b_hi_range == <<16, 18>>

EfghVar_c_lo_range == <<18, 31>>

EfghVar_c_hi_range == <<31, 41>>

EfghVar_d_lo_range == <<41, 54>>

EfghVar_d_hi_range == <<54, 64>>

EfghVar_ranges ==
    << EfghVar_a_range, EfghVar_b_lo_range, EfghVar_b_hi_range,
       EfghVar_c_lo_range, EfghVar_c_hi_range, EfghVar_d_lo_range,
       EfghVar_d_hi_range >>

EfghVar_declared ==
    << <<14, 28>>, <<2, 4>>, <<2, 4>>, <<13, 26>>, <<10, 20>>, <<13, 26>>,
       <<10, 20>> >>

EfghVar_pieces(val) ==
    LET bits == i2lebsp(val, 64)
    IN  << Slice(bits, EfghVar_a_range),
           Slice(bits, EfghVar_b_lo_range), Slice(bits, EfghVar_b_hi_range),
           Slice(bits, EfghVar_c_lo_range), Slice(bits, EfghVar_c_hi_range),
           Slice(bits, EfghVar_d_lo_range), Slice(bits, EfghVar_d_hi_range) >>

EfghVar(val) ==
    LET p == EfghVar_pieces(val)
    IN  [a    |-> SpreadVar(p[1]),
         b_lo |-> SpreadVar(p[2]), b_hi |-> SpreadVar(p[3]),
         c_lo |-> SpreadVar(p[4]), c_hi |-> SpreadVar(p[5]),
         d_lo |-> SpreadVar(p[6]), d_hi |-> SpreadVar(p[7])]

EfghVar_spread_a(v) == v.a.spread

EfghVar_spread_b(v) == v.b_lo.spread \o v.b_hi.spread

EfghVar_spread_c(v) == v.c_lo.spread \o v.c_hi.spread

EfghVar_spread_d(v) == v.d_lo.spread \o v.d_hi.spread

(***************************************************************************)
(* UpperSigmaVar::xor_upper_sigma                                          *)
(***************************************************************************)
\* try_into::<[bool; 128]>().unwrap(): defined only for 128 bits
To128(bits) == IF Len(bits) = 128 THEN bits ELSE "panic"

\* faulty variant of xor_upper_sigma: the second rotation repeats the first
xor_upper_sigma_swapped(a, b, c, d) ==
    LET xor_0 == lebs2ip(To128(b \o c \o d \o a))
        xor_1 == lebs2ip(To128(b \o c \o d \o a))
        xor_2 == lebs2ip(To128(d \o a \o b \o c))
    IN  i2lebsp(NumAdd(NumAdd(xor_0, xor_1), xor_2), 128)

xor_upper_sigma(a, b, c, d) ==
    LET xor_0 == lebs2ip(To128(b \o c \o d \o a))
        xor_1 == lebs2ip(To128(c \o d \o a \o b))
        xor_2 == lebs2ip(To128(d \o a \o b \o c))
    IN  i2lebsp(NumAdd(NumAdd(xor_0, xor_1), xor_2), 128)

\* faulty variant of the u128 sum: the first rotation is added twice
xor_upper_sigma_overflows_four_terms(a, b, c, d) ==
    LET xor_0 == lebs2ip(To128(b \o c \o d \o a))
        xor_1 == lebs2ip(To128(c \o d \o a \o b))
        xor_2 == lebs2ip(To128(d \o a \o b \o c))
    IN  ~NumLt(NumSum(<<xor_0, xor_0, xor_1, xor_2>>), Shl(One, 128))

\* xor_0 + xor_1 + xor_2 does not fit the 128-bit unsigned integer it is
\* computed in
xor_upper_sigma_overflows(a, b, c, d) ==
    LET xor_0 == lebs2ip(To128(b \o c \o d \o a))
        xor_1 == lebs2ip(To128(c \o d \o a \o b))
        xor_2 == lebs2ip(To128(d \o a \o b \o c))
    IN  ~NumLt(NumAdd(NumAdd(xor_0, xor_1), xor_2), Shl(One, 128))

\* what xor_upper_sigma does on known pieces: when the sum overflows, a build
\* with overflow checks panics in the addition and a build without them
\* wraps modulo 2^128
xor_upper_sigma_outcomes(a, b, c, d) ==
    IF xor_upper_sigma_overflows(a, b, c, d)
    THEN {[panic |-> TRUE, wrapped |-> FALSE],
          [panic |-> FALSE, wrapped |-> TRUE, val |-> xor_upper_sigma(a, b, c, d)]}
    ELSE {[panic |-> FALSE, wrapped |-> FALSE, val |-> xor_upper_sigma(a, b, c, d)]}

AbcdVar_xor_upper_sigma(v) ==
    xor_upper_sigma(AbcdVar_spread_a(v), AbcdVar_spread_b(v),
                    AbcdVar_spread_c(v), AbcdVar_spread_d(v))

EfghVar_xor_upper_sigma(v) ==
    xor_upper_sigma(EfghVar_spread_a(v), EfghVar_spread_b(v),
                    EfghVar_spread_c(v), EfghVar_spread_d(v))

(***************************************************************************)
(* Value<T>: a witness value that is known or not yet known                *)
(***************************************************************************)
Value_unknown == [known |-> FALSE]

Value_known(v) == [known |-> TRUE, val |-> v]

\* Value::zip: known iff both are known
Value_zip(x, y) ==
    IF x.known /\ y.known THEN Value_known(<<x.val, y.val>>) ELSE Value_unknown

\* spread_a..spread_d of a piece held as (lo, hi): lo.zip(hi).map(chain)
spread_lo_hi(lo, hi) ==
    LET z == Value_zip(lo, hi)
    IN  IF z.known THEN Value_known(z.val[1] \o z.val[2]) ELSE Value_unknown

\* faulty variant of the Value-level xor_upper_sigma: spread_d is not zipped
\* in, an unknown spread_d is read as zero
UpperSigmaVar_xor_upper_sigma_unzipped(spread_a, spread_b, spread_c, spread_d) ==
    LET z == Value_zip(Value_zip(spread_a, spread_b), spread_c)
        d == IF spread_d.known THEN spread_d.val
             ELSE SubSeq([i \in 1..128 |-> FALSE], 1,
                         128 - Len(z.val[1][1]) - Len(z.val[1][2]) - Len(z.val[2]))
    IN  IF z.known
        THEN Value_known(xor_upper_sigma(z.val[1][1], z.val[1][2], z.val[2], d))
        ELSE Value_unknown

\* xor_upper_sigma on Values: spread_a.zip(spread_b).zip(spread_c).zip(spread_d)
\* mapped through the sum of the three rotations
UpperSigmaVar_xor_upper_sigma(spread_a, spread_b, spread_c, spread_d) ==
    LET z == Value_zip(Value_zip(Value_zip(spread_a, spread_b), spread_c), spread_d)
    IN  IF z.known
        THEN Value_known(xor_upper_sigma(z.val[1][1][1], z.val[1][1][2],
                                         z.val[1][2], z.val[2]))
        ELSE Value_unknown

(***************************************************************************)
(* Plain bitwise reference functions on 64-bit arrays                      *)
(***************************************************************************)
ROTR(bits, k) == SubSeq([i \in 1..64 |-> bits[((i - 1 + k) % 64) + 1]], 1, 64)

SHR(bits, k) ==
    SubSeq([i \in 1..64 |-> IF i + k <= 64 THEN bits[i + k] ELSE FALSE], 1, 64)

Xor3(a, b, c) == SubSeq([i \in 1..64 |-> (a[i] # b[i]) # c[i]], 1, 64)

RefSigma0(bits) == Xor3(ROTR(bits, 28), ROTR(bits, 34), ROTR(bits, 39))

RefSigma1(bits) == Xor3(ROTR(bits, 14), ROTR(bits, 18), ROTR(bits, 41))

RefCh(e, f, g) ==
    SubSeq([i \in 1..64 |-> (e[i] /\ f[i]) # (~e[i] /\ g[i])], 1, 64)

RefMaj(a, b, c) ==
    SubSeq([i \in 1..64 |-> (a[i] /\ b[i]) \/ (a[i] /\ c[i]) \/ (b[i] /\ c[i])],
           1, 64)


(***************************************************************************)
(* The constraint field (bn256::Fr) and the gates' polynomial identities.  *)
(* A gate polynomial lhs - rhs is zero in the field iff lhs and rhs are    *)
(* congruent modulo the field modulus.                                     *)
(***************************************************************************)
FieldModulus ==
    <<\h0001, \hf000, \hf593, \h43e1, \h7091, \h79b9, \he848, \h2833,
      \h585d, \hb850, \h8181, \h45b6, \he131, \h4e72, \h0029, \h3064>>

RECURSIVE ModFrom(_, _)
ModFrom(r, s) ==
    IF s < 0 THEN r
    ELSE LET ps == Shl(FieldModulus, s)
             r2 == IF NumLt(r, ps) THEN r ELSE NumSub(r, ps)
         IN  IF Len(r2) >= 0 THEN ModFrom(r2, s - 1) ELSE r2

\* n mod p, by binary long division
FieldMod(n) ==
    IF NumLt(n, FieldModulus) THEN n
    ELSE ModFrom(n, 16 * (Len(n) - Len(FieldModulus) + 1))

FieldEq(lhs, rhs) == FieldMod(lhs) = FieldMod(rhs)

\* s_decompose_abcd: dense_check
s_decompose_abcd_dense_check(a, b_lo, b_hi, c_lo, c_hi, d, word_lo, word_hi) ==
    FieldEq(NumSum(<<a, Shl(b_lo, 28), Shl(b_hi, 31), Shl(c_lo, 34),
                     Shl(c_hi, 36), Shl(d, 39)>>),
            NumAdd(word_lo, Shl(word_hi, 32)))

\* faulty variant of spread_check: spread_c_hi weighted 2^74 instead of 2^72
s_decompose_abcd_spread_check_shifted(spread_a, spread_b_lo, spread_b_hi, spread_c_lo, spread_c_hi, spread_d, spread_word_lo, spread_word_hi) ==
    FieldEq(NumSum(<<spread_a, Shl(spread_b_lo, 56), Shl(spread_b_hi, 62),
                     Shl(spread_c_lo, 68), Shl(spread_c_hi, 74),
                     Shl(spread_d, 78)>>),
            NumAdd(spread_word_lo, Shl(spread_word_hi, 64)))

\* s_decompose_abcd: spread_check
s_decompose_abcd_spread_check(spread_a, spread_b_lo, spread_b_hi, spread_c_lo, spread_c_hi, spread_d, spread_word_lo, spread_word_hi) ==
    FieldEq(NumSum(<<spread_a, Shl(spread_b_lo, 56), Shl(spread_b_hi, 62),
                     Shl(spread_c_lo, 68), Shl(spread_c_hi, 72),
                     Shl(spread_d, 78)>>),
            NumAdd(spread_word_lo, Shl(spread_word_hi, 64)))

\* s_upper_sigma_0: spread_witness - (xor_0 + xor_1 + xor_2) = 0
s_upper_sigma_0(spread_r0_even, spread_r0_odd, spread_r1_even, spread_r1_odd, spread_a, spread_b_lo, spread_b_hi, spread_c_lo, spread_c_hi, spread_d) ==
    LET spread_witness ==
            NumAdd(NumAdd(spread_r0_even, Shl(spread_r0_odd, 1)),
                   Shl(NumAdd(spread_r1_even, Shl(spread_r1_odd, 1)), 64))
        xor_0 == NumSum(<<spread_b_lo, Shl(spread_b_hi, 6), Shl(spread_c_lo, 12),
                          Shl(spread_c_hi, 18), Shl(spread_d, 22),
                          Shl(spread_a, 72)>>)
        xor_1 == NumSum(<<spread_c_lo, Shl(spread_c_hi, 6), Shl(spread_d, 10),
                          Shl(spread_a, 60), Shl(spread_b_lo, 116),
                          Shl(spread_b_hi, 122)>>)
        xor_2 == NumSum(<<spread_d, Shl(spread_a, 50), Shl(spread_b_lo, 106),
                          Shl(spread_b_hi, 112), Shl(spread_c_lo, 118),
                          Shl(spread_c_hi, 124)>>)
    IN  FieldEq(spread_witness, NumSum(<<xor_0, xor_1, xor_2>>))

\* faulty variant of s_upper_sigma_1: spread_c weighted 2^84 instead of 2^82
\* in the third rotation
s_upper_sigma_1_c_shifted(spread_r0_even, spread_r0_odd, spread_r1_even, spread_r1_odd, spread_a, spread_b_lo, spread_b_hi, spread_c, spread_d) ==
    LET spread_witness ==
            NumAdd(NumAdd(spread_r0_even, Shl(spread_r0_odd, 1)),
                   Shl(NumAdd(spread_r1_even, Shl(spread_r1_odd, 1)), 64))
        xor_0 == NumSum(<<spread_b_lo, Shl(spread_b_hi, 4), Shl(spread_c, 8),
                          Shl(spread_d, 54), Shl(spread_a, 100)>>)
        xor_1 == NumSum(<<spread_c, Shl(spread_d, 46), Shl(spread_a, 92),
                          Shl(spread_b_lo, 120), Shl(spread_b_hi, 124)>>)
        xor_2 == NumSum(<<spread_d, Shl(spread_a, 46), Shl(spread_b_lo, 74),
                          Shl(spread_b_hi, 78), Shl(spread_c, 84)>>)
    IN  FieldEq(spread_witness, NumSum(<<xor_0, xor_1, xor_2>>))

\* s_upper_sigma_1: spread_witness - (xor_0 + xor_1 + xor_2) = 0
s_upper_sigma_1(spread_r0_even, spread_r0_odd, spread_r1_even, spread_r1_odd, spread_a, spread_b_lo, spread_b_hi, spread_c, spread_d) ==
    LET spread_witness ==
            NumAdd(NumAdd(spread_r0_even, Shl(spread_r0_odd, 1)),
                   Shl(NumAdd(spread_r1_even, Shl(spread_r1_odd, 1)), 64))
        xor_0 == NumSum(<<spread_b_lo, Shl(spread_b_hi, 4), Shl(spread_c, 8),
                          Shl(spread_d, 54), Shl(spread_a, 100)>>)
        xor_1 == NumSum(<<spread_c, Shl(spread_d, 46), Shl(spread_a, 92),
                          Shl(spread_b_lo, 120), Shl(spread_b_hi, 124)>>)
        xor_2 == NumSum(<<spread_d, Shl(spread_a, 46), Shl(spread_b_lo, 74),
                          Shl(spread_b_hi, 78), Shl(spread_c, 82)>>)
    IN  FieldEq(spread_witness, NumSum(<<xor_0, xor_1, xor_2>>))

\* s_decompose_efgh: dense_check
s_decompose_efgh_dense_check(a, b_lo, b_hi, c, d, word_lo, word_hi) ==
    FieldEq(NumSum(<<a, Shl(b_lo, 14), Shl(b_hi, 16), Shl(c, 18), Shl(d, 41)>>),
            NumAdd(word_lo, Shl(word_hi, 32)))

\* s_decompose_efgh: spread_check
s_decompose_efgh_spread_check(spread_a, spread_b_lo, spread_b_hi, spread_c, spread_d, spread_word_lo, spread_word_hi) ==
    FieldEq(NumSum(<<spread_a, Shl(spread_b_lo, 28), Shl(spread_b_hi, 32),
                     Shl(spread_c, 36), Shl(spread_d, 82)>>),
            NumAdd(spread_word_lo, Shl(spread_word_hi, 64)))

\* the all-ones-at-even-positions constant for a 64-bit spread half
MASK_EVEN_64 == <<\h5555, \h5555, \h5555, \h5555>>

\* faulty variant of s_ch: the even halves weighted 2 and the odd halves 1
s_ch_even_doubled(spread_p0_even, spread_p0_odd, spread_p1_even, spread_p1_odd, spread_e_lo, spread_e_hi, spread_f_lo, spread_f_hi) ==
    LET lhs_lo == NumAdd(spread_e_lo, spread_f_lo)
        lhs_hi == NumAdd(spread_e_hi, spread_f_hi)
        lhs == NumAdd(lhs_lo, Shl(lhs_hi, 64))
        rhs_even == NumAdd(spread_p0_even, Shl(spread_p1_even, 64))
        rhs_odd == NumAdd(spread_p0_odd, Shl(spread_p1_odd, 64))
        rhs == NumAdd(rhs_odd, Shl(rhs_even, 1))
    IN  FieldEq(lhs, rhs)

\* s_ch: spread(E) + spread(F) = even + 2 * odd
s_ch(spread_p0_even, spread_p0_odd, spread_p1_even, spread_p1_odd, spread_e_lo, spread_e_hi, spread_f_lo, spread_f_hi) ==
    LET lhs_lo == NumAdd(spread_e_lo, spread_f_lo)
        lhs_hi == NumAdd(spread_e_hi, spread_f_hi)
        lhs == NumAdd(lhs_lo, Shl(lhs_hi, 64))
        rhs_even == NumAdd(spread_p0_even, Shl(spread_p1_even, 64))
        rhs_odd == NumAdd(spread_p0_odd, Shl(spread_p1_odd, 64))
        rhs == NumAdd(rhs_even, Shl(rhs_odd, 1))
    IN  FieldEq(lhs, rhs)

\* faulty variant of s_ch_neg: hi_check is left out
s_ch_neg_no_hi_check(spread_q0_even, spread_q0_odd, spread_q1_even, spread_q1_odd, spread_e_lo, spread_e_hi, spread_e_neg_lo, spread_e_neg_hi, spread_g_lo, spread_g_hi) ==
    LET lo_check == FieldEq(NumAdd(spread_e_neg_lo, spread_e_lo), MASK_EVEN_64)
        lhs_lo == NumAdd(spread_e_neg_lo, spread_g_lo)
        lhs_hi == NumAdd(spread_e_neg_hi, spread_g_hi)
        lhs == NumAdd(lhs_lo, Shl(lhs_hi, 64))
        rhs_even == NumAdd(spread_q0_even, Shl(spread_q1_even, 64))
        rhs_odd == NumAdd(spread_q0_odd, Shl(spread_q1_odd, 64))
        rhs == NumAdd(rhs_even, Shl(rhs_odd, 1))
    IN  lo_check /\ FieldEq(lhs, rhs)

\* s_ch_neg: lo_check, hi_check and spread(not E) + spread(G) = even + 2 * odd
s_ch_neg(spread_q0_even, spread_q0_odd, spread_q1_even, spread_q1_odd, spread_e_lo, spread_e_hi, spread_e_neg_lo, spread_e_neg_hi, spread_g_lo, spread_g_hi) ==
    LET lo_check == FieldEq(NumAdd(spread_e_neg_lo, spread_e_lo), MASK_EVEN_64)
        hi_check == FieldEq(NumAdd(spread_e_neg_hi, spread_e_hi), MASK_EVEN_64)
        lhs_lo == NumAdd(spread_e_neg_lo, spread_g_lo)
        lhs_hi == NumAdd(spread_e_neg_hi, spread_g_hi)
        lhs == NumAdd(lhs_lo, Shl(lhs_hi, 64))
        rhs_even == NumAdd(spread_q0_even, Shl(spread_q1_even, 64))
        rhs_odd == NumAdd(spread_q0_odd, Shl(spread_q1_odd, 64))
        rhs == NumAdd(rhs_even, Shl(rhs_odd, 1))
    IN  lo_check /\ hi_check /\ FieldEq(lhs, rhs)

\* faulty variant of s_maj: the spread of C is left out of the sum
s_maj_two_terms(spread_m_0_even, spread_m_0_odd, spread_m_1_even, spread_m_1_odd, spread_a_lo, spread_a_hi, spread_b_lo, spread_b_hi, spread_c_lo, spread_c_hi) ==
    LET maj_even == NumAdd(spread_m_0_even, Shl(spread_m_1_even, 64))
        maj_odd == NumAdd(spread_m_0_odd, Shl(spread_m_1_odd, 64))
        maj == NumAdd(maj_even, Shl(maj_odd, 1))
        a == NumAdd(spread_a_lo, Shl(spread_a_hi, 64))
        b == NumAdd(spread_b_lo, Shl(spread_b_hi, 64))
    IN  FieldEq(NumAdd(a, b), maj)

\* s_maj: spread(A) + spread(B) + spread(C) = even + 2 * odd
s_maj(spread_m_0_even, spread_m_0_odd, spread_m_1_even, spread_m_1_odd, spread_a_lo, spread_a_hi, spread_b_lo, spread_b_hi, spread_c_lo, spread_c_hi) ==
    LET maj_even == NumAdd(spread_m_0_even, Shl(spread_m_1_even, 64))
        maj_odd == NumAdd(spread_m_0_odd, Shl(spread_m_1_odd, 64))
        maj == NumAdd(maj_even, Shl(maj_odd, 1))
        a == NumAdd(spread_a_lo, Shl(spread_a_hi, 64))
        b == NumAdd(spread_b_lo, Shl(spread_b_hi, 64))
        c == NumAdd(spread_c_lo, Shl(spread_c_hi, 64))
        sum == NumAdd(NumAdd(a, b), c)
    IN  FieldEq(sum, maj)

\* faulty variant of s_h_prime: the Ch-neg addend is left out of the sum
s_h_prime_no_ch_neg(h_prime_lo, h_prime_hi, h_prime_carry, sigma_e_lo, sigma_e_hi, ch_lo, ch_hi, ch_neg_lo, ch_neg_hi, h_lo, h_hi, k_lo, k_hi, w_lo, w_hi) ==
    LET lo == NumSum(<<h_lo, ch_lo, sigma_e_lo, k_lo, w_lo>>)
        hi == NumSum(<<h_hi, ch_hi, sigma_e_hi, k_hi, w_hi>>)
        sum == NumAdd(lo, Shl(hi, 32))
        h_prime == NumAdd(h_prime_lo, Shl(h_prime_hi, 32))
    IN  FieldEq(sum, NumAdd(Shl(h_prime_carry, 64), h_prime))

\* s_h_prime: H' = H + Ch + Ch-neg + Sigma1(E) + K + W, with carry
s_h_prime(h_prime_lo, h_prime_hi, h_prime_carry, sigma_e_lo, sigma_e_hi, ch_lo, ch_hi, ch_neg_lo, ch_neg_hi, h_lo, h_hi, k_lo, k_hi, w_lo, w_hi) ==
    LET lo == NumSum(<<h_lo, ch_lo, ch_neg_lo, sigma_e_lo, k_lo, w_lo>>)
        hi == NumSum(<<h_hi, ch_hi, ch_neg_hi, sigma_e_hi, k_hi, w_hi>>)
        sum == NumAdd(lo, Shl(hi, 32))
        h_prime == NumAdd(h_prime_lo, Shl(h_prime_hi, 32))
    IN  FieldEq(sum, NumAdd(Shl(h_prime_carry, 64), h_prime))

\* faulty variant of s_a_new: the Maj addend is left out of the sum
s_a_new_no_maj(a_new_lo, a_new_hi, a_new_carry, sigma_a_lo, sigma_a_hi, maj_abc_lo, maj_abc_hi, h_prime_lo, h_prime_hi) ==
    LET lo == NumAdd(sigma_a_lo, h_prime_lo)
        hi == NumAdd(sigma_a_hi, h_prime_hi)
        sum == NumAdd(lo, Shl(hi, 32))
        a_new == NumAdd(a_new_lo, Shl(a_new_hi, 32))
    IN  FieldEq(sum, NumAdd(Shl(a_new_carry, 64), a_new))

\* s_a_new: A_new = H' + Maj(A, B, C) + Sigma0(A), with carry
s_a_new(a_new_lo, a_new_hi, a_new_carry, sigma_a_lo, sigma_a_hi, maj_abc_lo, maj_abc_hi, h_prime_lo, h_prime_hi) ==
    LET lo == NumSum(<<sigma_a_lo, maj_abc_lo, h_prime_lo>>)
        hi == NumSum(<<sigma_a_hi, maj_abc_hi, h_prime_hi>>)
        sum == NumAdd(lo, Shl(hi, 32))
        a_new == NumAdd(a_new_lo, Shl(a_new_hi, 32))
    IN  FieldEq(sum, NumAdd(Shl(a_new_carry, 64), a_new))

\* s_e_new: E_new = H' + D, with carry
s_e_new(e_new_lo, e_new_hi, e_new_carry, d_lo, d_hi, h_prime_lo, h_prime_hi) ==
    LET lo == NumAdd(h_prime_lo, d_lo)
        hi == NumAdd(h_prime_hi, d_hi)
        sum == NumAdd(lo, Shl(hi, 32))
        e_new == NumAdd(e_new_lo, Shl(e_new_hi, 32))
    IN  FieldEq(sum, NumAdd(Shl(e_new_carry, 64), e_new))

\* s_digest: word_i = lo_i + 2^32 * hi_i for the four words of a row pair
s_digest(lo_0, hi_0, word_0, lo_1, hi_1, word_1, lo_2, hi_2, word_2, lo_3, hi_3, word_3) ==
    /\ FieldEq(NumAdd(lo_0, Shl(hi_0, 32)), word_0)
    /\ FieldEq(NumAdd(lo_1, Shl(hi_1, 32)), word_1)
    /\ FieldEq(NumAdd(lo_2, Shl(hi_2, 32)), word_2)
    /\ FieldEq(NumAdd(lo_3, Shl(hi_3, 32)), word_3)


(***************************************************************************)
(* Honest witnesses of the decomposition gates: the cells the assignment   *)
(* writes for a word x.                                                    *)
(***************************************************************************)
\* RoundWordDense: a 64-bit word as two 32-bit halves (lo, hi)
RoundWordDense(x) ==
    LET bits == i2lebsp(x, 64)
    IN  <<SubSeq(bits, 1, 32), SubSeq(bits, 33, 64)>>

\* faulty variant of RoundWordDense::value: hi weighted 2^31 instead of 2^32
RoundWordDense_value_31(w) == NumAdd(lebs2ip(w[1]), Shl(lebs2ip(w[2]), 31))

RoundWordDense_value(w) == NumAdd(lebs2ip(w[1]), Shl(lebs2ip(w[2]), 32))

\* RoundWordSpread: the spread forms of the two halves, 64 bits each
RoundWordSpread(x) ==
    LET d == RoundWordDense(x)
    IN  <<SpreadVar(d[1]).spread, SpreadVar(d[2]).spread>>

RoundWordSpread_value(w) == NumAdd(lebs2ip(w[1]), Shl(lebs2ip(w[2]), 64))

\* the four cells holding a word's dense and spread halves
WordHalves(x) ==
    LET d == RoundWordDense(x)
        sp == RoundWordSpread(x)
    IN  [word_lo |-> lebs2ip(d[1]), word_hi |-> lebs2ip(d[2]),
         spread_word_lo |-> lebs2ip(sp[1]), spread_word_hi |-> lebs2ip(sp[2])]

\* a piece of width > 16 spans two SpreadVars; its cells are their values
PieceCell(bits) ==
    LET v == SpreadVar(bits)
    IN  [dense |-> lebs2ip(v.dense), spread |-> lebs2ip(v.spread)]

decompose_abcd(x) ==
    LET p == AbcdVar_pieces(x)
    IN  [a    |-> PieceCell(p[1] \o p[2]),
         b_lo |-> PieceCell(p[3]), b_hi |-> PieceCell(p[4]),
         c_lo |-> PieceCell(p[5]), c_hi |-> PieceCell(p[6]),
         d    |-> PieceCell(p[7] \o p[8]),
         word |-> WordHalves(x)]

decompose_efgh(x) ==
    LET p == EfghVar_pieces(x)
    IN  [a    |-> PieceCell(p[1]),
         b_lo |-> PieceCell(p[2]), b_hi |-> PieceCell(p[3]),
         c    |-> PieceCell(p[4] \o p[5]),
         d    |-> PieceCell(p[6] \o p[7]),
         word |-> WordHalves(x)]

\* RoundWordDense::value and RoundWordSpread::value on Values: lo.zip(hi).map
RoundWordDense_value_zip(lo, hi) ==
    LET z == Value_zip(lo, hi)
    IN  IF z.known THEN Value_known(RoundWordDense_value(z.val)) ELSE Value_unknown

RoundWordSpread_value_zip(lo, hi) ==
    LET z == Value_zip(lo, hi)
    IN  IF z.known THEN Value_known(RoundWordSpread_value(z.val)) ELSE Value_unknown

(***************************************************************************)
(* Witness assignment of the round gates                                   *)
(***************************************************************************)
\* the even/odd split of a 128-bit sum of spread words: each 64-bit half of
\* the sum is split into its even-position and odd-position bits, and each
\* of the four 32-bit results is stored with its spread form
SpreadSumCells(sum) ==
    LET bits == i2lebsp(sum, 128)
        r0 == SubSeq(bits, 1, 64)
        r1 == SubSeq(bits, 65, 128)
    IN  IF ~Evaluated(r0 \o r1) THEN <<>> ELSE
        [r0_even |-> PieceCell(even_bits(r0)), r0_odd |-> PieceCell(odd_bits(r0)),
         r1_even |-> PieceCell(even_bits(r1)), r1_odd |-> PieceCell(odd_bits(r1))]

\* a 64-bit word as its (lo, hi) pair of 32-bit values
HalvesOf(x) == <<lebs2ip(RoundWordDense(x)[1]), lebs2ip(RoundWordDense(x)[2])>>

\* the dense word held by the even (resp. odd) halves of a split sum
EvenWord(c) == NumAdd(c.r0_even.dense, Shl(c.r1_even.dense, 32))

OddWord(c) == NumAdd(c.r0_odd.dense, Shl(c.r1_odd.dense, 32))

assign_upper_sigma_0(pieces) == SpreadSumCells(lebs2ip(AbcdVar_xor_upper_sigma(pieces)))

assign_upper_sigma_1(pieces) == SpreadSumCells(lebs2ip(EfghVar_xor_upper_sigma(pieces)))

assign_ch(spread_halves_e, spread_halves_f) ==
    SpreadSumCells(NumAdd(RoundWordSpread_value(spread_halves_e),
                          RoundWordSpread_value(spread_halves_f)))

\* flip the even-position bits of a spread half
negate_spread(arr) ==
    SubSeq([i \in 1..Len(arr) |-> IF i % 2 = 1 THEN ~arr[i] ELSE arr[i]],
           1, Len(arr))

assign_ch_neg(spread_halves_e, spread_halves_g) ==
    LET e_neg == <<negate_spread(spread_halves_e[1]),
                   negate_spread(spread_halves_e[2])>>
    IN  [spread_e_neg_lo |-> lebs2ip(e_neg[1]),
         spread_e_neg_hi |-> lebs2ip(e_neg[2]),
         q |-> SpreadSumCells(NumAdd(RoundWordSpread_value(e_neg),
                                     RoundWordSpread_value(spread_halves_g)))]

assign_maj(spread_halves_a, spread_halves_b, spread_halves_c) ==
    SpreadSumCells(NumSum(<<RoundWordSpread_value(spread_halves_a),
                            RoundWordSpread_value(spread_halves_b),
                            RoundWordSpread_value(spread_halves_c)>>))

RECURSIVE SumWords(_)
SumWords(words) ==
    IF Len(words) = 0 THEN Zero
    ELSE NumAdd(NumAdd(words[1][1], Shl(words[1][2], 32)), SumWords(Tail(words)))

\* the sum of (lo, hi) words as a 64-bit result and its carry
sum_with_carry(words) ==
    LET sum == SumWords(words)
        res == i2lebsp(LowLimbs(sum, 4), 64)
    IN  [lo |-> lebs2ip(SubSeq(res, 1, 32)), hi |-> lebs2ip(SubSeq(res, 33, 64)),
         carry |-> HighLimbs(sum, 4)]


\* Option::None / an unassigned value
NoValue == [tag |-> "None"]

\* Result::Ok(v) of the operation op, and Result::Err
Ok(op, v) == [ok |-> TRUE, op |-> op, val |-> v]

Err == [ok |-> FALSE, err |-> "Error"]

(***************************************************************************)
(* Constants of the hash function and the test messages                    *)
(***************************************************************************)
ROUNDS == 80

\* the SHA-512 initialization vector
IV ==
    << <<\hc908, \hf3bc, \he667, \h6a09>>, <<\ha73b, \h84ca, \hae85, \hbb67>>,
       <<\hf82b, \hfe94, \hf372, \h3c6e>>, <<\h36f1, \h5f1d, \hf53a, \ha54f>>,
       <<\h82d1, \hade6, \h527f, \h510e>>, <<\h6c1f, \h2b3e, \h688c, \h9b05>>,
       <<\hbd6b, \hfb41, \hd9ab, \h1f83>>, <<\h2179, \h137e, \hcd19, \h5be0>> >>

\* the 80 round constants K
ROUND_CONSTANTS ==
    << <<\hae22, \hd728, \h2f98, \h428a>>, <<\h65cd, \h23ef, \h4491, \h7137>>,
       <<\h3b2f, \hec4d, \hfbcf, \hb5c0>>, <<\hdbbc, \h8189, \hdba5, \he9b5>>,
       <<\hb538, \hf348, \hc25b, \h3956>>, <<\hd019, \hb605, \h11f1, \h59f1>>,
       <<\h4f9b, \haf19, \h82a4, \h923f>>, <<\h8118, \hda6d, \h5ed5, \hab1c>>,
       <<\h0242, \ha303, \haa98, \hd807>>, <<\h6fbe, \h4570, \h5b01, \h1283>>,
       <<\hb28c, \h4ee4, \h85be, \h2431>>, <<\hb4e2, \hd5ff, \h7dc3, \h550c>>,
       <<\h896f, \hf27b, \h5d74, \h72be>>, <<\h96b1, \h3b16, \hb1fe, \h80de>>,
       <<\h1235, \h25c7, \h06a7, \h9bdc>>, <<\h2694, \hcf69, \hf174, \hc19b>>,
       <<\h4ad2, \h9ef1, \h69c1, \he49b>>, <<\h25e3, \h384f, \h4786, \hefbe>>,
       <<\hd5b5, \h8b8c, \h9dc6, \h0fc1>>, <<\h9c65, \h77ac, \ha1cc, \h240c>>,
       <<\h0275, \h592b, \h2c6f, \h2de9>>, <<\he483, \h6ea6, \h84aa, \h4a74>>,
       <<\hfbd4, \hbd41, \ha9dc, \h5cb0>>, <<\h53b5, \h8311, \h88da, \h76f9>>,
       <<\hdfab, \hee66, \h5152, \h983e>>, <<\h3210, \h2db4, \hc66d, \ha831>>,
       <<\h213f, \h98fb, \h27c8, \hb003>>, <<\h0ee4, \hbeef, \h7fc7, \hbf59>>,
       <<\h8fc2, \h3da8, \h0bf3, \hc6e0>>, <<\ha725, \h930a, \h9147, \hd5a7>>,
       <<\h826f, \he003, \h6351, \h06ca>>, <<\h6e70, \h0a0e, \h2967, \h1429>>,
       <<\h2ffc, \h46d2, \h0a85, \h27b7>>, <<\hc926, \h5c26, \h2138, \h2e1b>>,
       <<\h2aed, \h5ac4, \h6dfc, \h4d2c>>, <<\hb3df, \h9d95, \h0d13, \h5338>>,
       <<\h63de, \h8baf, \h7354, \h650a>>, <<\hb2a8, \h3c77, \h0abb, \h766a>>,
       <<\haee6, \h47ed, \hc92e, \h81c2>>, <<\h353b, \h1482, \h2c85, \h9272>>,
       <<\h0364, \h4cf1, \he8a1, \ha2bf>>, <<\h3001, \hbc42, \h664b, \ha81a>>,
       <<\h9791, \hd0f8, \h8b70, \hc24b>>, <<\hbe30, \h0654, \h51a3, \hc76c>>,
       <<\h5218, \hd6ef, \he819, \hd192>>, <<\ha910, \h5565, \h0624, \hd699>>,
       <<\h202a, \h5771, \h3585, \hf40e>>, <<\hd1b8, \h32bb, \ha070, \h106a>>,
       <<\hd0c8, \hb8d2, \hc116, \h19a4>>, <<\hab53, \h5141, \h6c08, \h1e37>>,
       <<\heb99, \hdf8e, \h774c, \h2748>>, <<\h48a8, \he19b, \hbcb5, \h34b0>>,
       <<\h5a63, \hc5c9, \h0cb3, \h391c>>, <<\h8acb, \he341, \haa4a, \h4ed8>>,
       <<\he373, \h7763, \hca4f, \h5b9c>>, <<\hb8a3, \hd6b2, \h6ff3, \h682e>>,
       <<\hb2fc, \h5def, \h82ee, \h748f>>, <<\h2f60, \h4317, \h636f, \h78a5>>,
       <<\hab72, \ha1f0, \h7814, \h84c8>>, <<\h39ec, \h1a64, \h0208, \h8cc7>>,
       <<\h1e28, \h2363, \hfffa, \h90be>>, <<\hbde9, \hde82, \h6ceb, \ha450>>,
       <<\h7915, \hb2c6, \ha3f7, \hbef9>>, <<\h532b, \he372, \h78f2, \hc671>>,
       <<\h619c, \hea26, \h3ece, \hca27>>, <<\hc207, \h21c0, \hb8c7, \hd186>>,
       <<\heb1e, \hcde0, \h7dd6, \heada>>, <<\hd178, \hee6e, \h4f7f, \hf57d>>,
       <<\h6fba, \h7217, \h67aa, \h06f0>>, <<\h98a6, \ha2c8, \h7dc5, \h0a63>>,
       <<\h0dae, \hbef9, \h9804, \h113f>>, <<\h471b, \h131c, \h0b35, \h1b71>>,
       <<\h7d84, \h2304, \h77f5, \h28db>>, <<\h2493, \h40c7, \hab7b, \h32ca>>,
       <<\hbebc, \h15c9, \hbe0a, \h3c9e>>, <<\h0d4c, \h9c10, \h67c4, \h431d>>,
       <<\h42b6, \hcb3e, \hd4be, \h4cc5>>, <<\h7e2a, \hfc65, \h299c, \h597f>>,
       <<\hfaec, \h3ad6, \h6fab, \h5fcb>>, <<\h5817, \h4a47, \h198c, \h6c44>> >>

\* msg_schedule_test_input(): the padded one-block message "abc"
BlockAbc ==
    << <<\h0000, \h0000, \h6380, \h6162>>, <<\h0000, \h0000, \h0000, \h0000>>,
       <<\h0000, \h0000, \h0000, \h0000>>, <<\h0000, \h0000, \h0000, \h0000>>,
       <<\h0000, \h0000, \h0000, \h0000>>, <<\h0000, \h0000, \h0000, \h0000>>,
       <<\h0000, \h0000, \h0000, \h0000>>, <<\h0000, \h0000, \h0000, \h0000>>,
       <<\h0000, \h0000, \h0000, \h0000>>, <<\h0000, \h0000, \h0000, \h0000>>,
       <<\h0000, \h0000, \h0000, \h0000>>, <<\h0000, \h0000, \h0000, \h0000>>,
       <<\h0000, \h0000, \h0000, \h0000>>, <<\h0000, \h0000, \h0000, \h0000>>,
       <<\h0000, \h0000, \h0000, \h0000>>, <<\h0018, \h0000, \h0000, \h0000>> >>

\* the two padded blocks of the 112-byte message "abcdefghbcdefghi...nopqrstu"
BlockLong1 ==
    << <<\h6768, \h6566, \h6364, \h6162>>, <<\h6869, \h6667, \h6465, \h6263>>,
       <<\h696a, \h6768, \h6566, \h6364>>, <<\h6a6b, \h6869, \h6667, \h6465>>,
       <<\h6b6c, \h696a, \h6768, \h6566>>, <<\h6c6d, \h6a6b, \h6869, \h6667>>,
       <<\h6d6e, \h6b6c, \h696a, \h6768>>, <<\h6e6f, \h6c6d, \h6a6b, \h6869>>,
       <<\h6f70, \h6d6e, \h6b6c, \h696a>>, <<\h7071, \h6e6f, \h6c6d, \h6a6b>>,
       <<\h7172, \h6f70, \h6d6e, \h6b6c>>, <<\h7273, \h7071, \h6e6f, \h6c6d>>,
       <<\h7374, \h7172, \h6f70, \h6d6e>>, <<\h7475, \h7273, \h7071, \h6e6f>>,
       <<\h0000, \h0000, \h0000, \h8000>>, <<\h0000, \h0000, \h0000, \h0000>> >>

BlockLong2 ==
    << <<\h0000, \h0000, \h0000, \h0000>>, <<\h0000, \h0000, \h0000, \h0000>>,
       <<\h0000, \h0000, \h0000, \h0000>>, <<\h0000, \h0000, \h0000, \h0000>>,
       <<\h0000, \h0000, \h0000, \h0000>>, <<\h0000, \h0000, \h0000, \h0000>>,
       <<\h0000, \h0000, \h0000, \h0000>>, <<\h0000, \h0000, \h0000, \h0000>>,
       <<\h0000, \h0000, \h0000, \h0000>>, <<\h0000, \h0000, \h0000, \h0000>>,
       <<\h0000, \h0000, \h0000, \h0000>>, <<\h0000, \h0000, \h0000, \h0000>>,
       <<\h0000, \h0000, \h0000, \h0000>>, <<\h0000, \h0000, \h0000, \h0000>>,
       <<\h0000, \h0000, \h0000, \h0000>>, <<\h0380, \h0000, \h0000, \h0000>> >>

\* the SHA-512 hash state of "abc" (ddaf35a1 93617aba ... 2a9ac94f a54ca49f)
COMPRESSION_OUTPUT ==
    << <<\h7aba, \h9361, \h35a1, \hddaf>>, <<\h4131, \hae20, \h7349, \hcc41>>,
       <<\h7ea2, \h89a9, \hfa4e, \h12e6>>, <<\hd39a, \h4b55, \heee6, \h0a9e>>,
       <<\hc1a8, \h274f, \h992a, \h2192>>, <<\hebbd, \ha3fe, \h3c23, \h36ba>>,
       <<\he80e, \h643c, \h4423, \h454d>>, <<\ha49f, \ha54c, \hc94f, \h2a9a>> >>

\* the SHA-512 hash of the 112-byte message (8e959b75 dae313da ... 5e96e55b 874be909)
Sha512Long ==
    << <<\h13da, \hdae3, \h9b75, \h8e95>>, <<\h143f, \h14fc, \hf728, \h8cf4>>,
       <<\h7fa1, \heb9f, \h79c6, \h8f77>>, <<\h9018, \hb688, \haead, \h7299>>,
       <<\hf7e4, \h4900, \h289e, \h501d>>, <<\h433a, \hc4b5, \h99de, \h331b>>,
       <<\h2654, \hb6dd, \h29ee, \hc7d3>>, <<\he909, \h874b, \he55b, \h5e96>> >>

Messages == {"abc", "long"}

Blocks(m) == IF m = "abc" THEN <<BlockAbc>> ELSE <<BlockLong1, BlockLong2>>

(***************************************************************************)
(* message_schedule.process: the 80 round words of a block as (lo, hi)     *)
(***************************************************************************)
lower_sigma_0(bits) == Xor3(ROTR(bits, 1), ROTR(bits, 8), SHR(bits, 7))

lower_sigma_1(bits) == Xor3(ROTR(bits, 19), ROTR(bits, 61), SHR(bits, 6))

RECURSIVE ScheduleFrom(_, _, _)
ScheduleFrom(w, t, last) ==
    IF t > last THEN w
    ELSE LET nw == LowLimbs(
                     NumSum(<<lebs2ip(lower_sigma_1(i2lebsp(w[t - 2], 64))),
                              w[t - 7],
                              lebs2ip(lower_sigma_0(i2lebsp(w[t - 15], 64))),
                              w[t - 16]>>), 4)
             w2 == Append(w, nw)
         IN  IF Len(w2) >= 0 THEN ScheduleFrom(w2, t + 1, last) ELSE w2

\* the schedule words W_0..W_79, extended 16 words at a time
message_schedule_process(input) ==
    LET w0 == SubSeq([i \in 1..16 |-> Norm(input[i])], 1, 16)
        w == ScheduleFrom(ScheduleFrom(ScheduleFrom(ScheduleFrom(
                 w0, 17, 32), 33, 48), 49, 64), 65, ROUNDS)
    IN  SubSeq([t \in 1..ROUNDS |-> HalvesOf(w[t])], 1, ROUNDS)

(***************************************************************************)
(* State and its words                                                     *)
(***************************************************************************)
RoundWordA_new(pieces, dense_halves, spread_halves) ==
    [pieces |-> pieces, dense_halves |-> dense_halves,
     spread_halves |-> spread_halves]

RoundWordA_new_dense(dense_halves) ==
    [pieces |-> NoValue, dense_halves |-> dense_halves, spread_halves |-> NoValue]

\* faulty variant of RoundWordE::new: the pieces are dropped
RoundWordE_new_without_pieces(pieces, dense_halves, spread_halves) ==
    [pieces |-> NoValue, dense_halves |-> dense_halves,
     spread_halves |-> spread_halves]

RoundWordE_new(pieces, dense_halves, spread_halves) ==
    [pieces |-> pieces, dense_halves |-> dense_halves,
     spread_halves |-> spread_halves]

RoundWordE_new_dense(dense_halves) ==
    [pieces |-> NoValue, dense_halves |-> dense_halves, spread_halves |-> NoValue]

RoundWord_new(dense_halves, spread_halves) ==
    [dense_halves |-> dense_halves, spread_halves |-> spread_halves]

\* a StateWord: the slot's tag with the round word it wraps
StateWord(slot, word) == [slot |-> slot, word |-> word]

\* faulty variant of State::new: slot h is left None
State_new_without_h(a, b, c, d, e, f, g, h) ==
    [a |-> a, b |-> b, c |-> c, d |-> d, e |-> e, f |-> f, g |-> g, h |-> NoValue]

State_new(a, b, c, d, e, f, g, h) ==
    [a |-> a, b |-> b, c |-> c, d |-> d, e |-> e, f |-> f, g |-> g, h |-> h]

State_empty_state ==
    [a |-> NoValue, b |-> NoValue, c |-> NoValue, d |-> NoValue,
     e |-> NoValue, f |-> NoValue, g |-> NoValue, h |-> NoValue]

\* the dense halves every slot carries
DenseHalves(sw) ==
    IF sw.slot \in {"D", "H"} THEN sw.word ELSE sw.word.dense_halves

\* the u64 values of the eight slots, A first
StateValues(s) ==
    << RoundWordDense_value(DenseHalves(s.a)), RoundWordDense_value(DenseHalves(s.b)),
       RoundWordDense_value(DenseHalves(s.c)), RoundWordDense_value(DenseHalves(s.d)),
       RoundWordDense_value(DenseHalves(s.e)), RoundWordDense_value(DenseHalves(s.f)),
       RoundWordDense_value(DenseHalves(s.g)), RoundWordDense_value(DenseHalves(s.h)) >>

\* a (lo, hi) pair of 32-bit arrays as a pair of values
HalfValues(dense_halves) == <<lebs2ip(dense_halves[1]), lebs2ip(dense_halves[2])>>

(***************************************************************************)
(* Subregions: initial state, one round, digest                            *)
(***************************************************************************)
\* assign the eight words v: A and E decomposed into pieces, B, C, F, G with
\* dense and spread halves, D and H with dense halves only
StateFromValues(v) ==
    State_new(
        StateWord("A", RoundWordA_new(AbcdVar(v[1]), RoundWordDense(v[1]),
                                      RoundWordSpread(v[1]))),
        StateWord("B", RoundWord_new(RoundWordDense(v[2]), RoundWordSpread(v[2]))),
        StateWord("C", RoundWord_new(RoundWordDense(v[3]), RoundWordSpread(v[3]))),
        StateWord("D", RoundWordDense(v[4])),
        StateWord("E", RoundWordE_new(EfghVar(v[5]), RoundWordDense(v[5]),
                                      RoundWordSpread(v[5]))),
        StateWord("F", RoundWord_new(RoundWordDense(v[6]), RoundWordSpread(v[6]))),
        StateWord("G", RoundWord_new(RoundWordDense(v[7]), RoundWordSpread(v[7]))),
        StateWord("H", RoundWordDense(v[8])))

initialize_iv(iv) == StateFromValues(SubSeq([i \in 1..8 |-> Norm(iv[i])], 1, 8))

initialize_state(s) == StateFromValues(StateValues(s))

\* the additive gates' witnesses: the result halves and the carry
assign_h_prime(idx, h, ch, ch_neg, sigma_1, schedule_word) ==
    sum_with_carry(<< HalfValues(h),
                      <<ch.r0_odd.dense, ch.r1_odd.dense>>,
                      <<ch_neg.q.r0_odd.dense, ch_neg.q.r1_odd.dense>>,
                      <<sigma_1.r0_even.dense, sigma_1.r1_even.dense>>,
                      HalvesOf(Norm(ROUND_CONSTANTS[idx + 1])),
                      schedule_word >>)

assign_e_new(d, h_prime) ==
    sum_with_carry(<< <<h_prime.lo, h_prime.hi>>, HalfValues(d) >>)

assign_a_new(maj, sigma_0, h_prime) ==
    sum_with_carry(<< <<h_prime.lo, h_prime.hi>>,
                      <<maj.r0_odd.dense, maj.r1_odd.dense>>,
                      <<sigma_0.r0_even.dense, sigma_0.r1_even.dense>> >>)

\* the cells of one round, gate by gate
RoundBooleanCells(idx, s) ==
    [round   |-> idx,
     sigma_1 |-> assign_upper_sigma_1(s.e.word.pieces),
     ch      |-> assign_ch(s.e.word.spread_halves, s.f.word.spread_halves),
     ch_neg  |-> assign_ch_neg(s.e.word.spread_halves, s.g.word.spread_halves),
     sigma_0 |-> assign_upper_sigma_0(s.a.word.pieces),
     maj     |-> assign_maj(s.a.word.spread_halves, s.b.word.spread_halves,
                            s.c.word.spread_halves)]

RoundHPrimeCells(idx, s, schedule_word, c) ==
    [round |-> c.round, sigma_1 |-> c.sigma_1, ch |-> c.ch, ch_neg |-> c.ch_neg,
     sigma_0 |-> c.sigma_0, maj |-> c.maj,
     h_prime |-> assign_h_prime(idx, s.h.word, c.ch, c.ch_neg, c.sigma_1,
                                schedule_word)]

RoundCells(s, c) ==
    [round |-> c.round, sigma_1 |-> c.sigma_1, ch |-> c.ch, ch_neg |-> c.ch_neg,
     sigma_0 |-> c.sigma_0, maj |-> c.maj, h_prime |-> c.h_prime,
     e_new |-> assign_e_new(s.d.word, c.h_prime),
     a_new |-> assign_a_new(c.maj, c.sigma_0, c.h_prime)]

\* the new A and E words: decomposed, except after the last round
NewRoundWordA(idx, val) ==
    IF idx = ROUNDS - 1
    THEN RoundWordA_new_dense(RoundWordDense(val))
    ELSE RoundWordA_new(AbcdVar(val), RoundWordDense(val), RoundWordSpread(val))

NewRoundWordE(idx, val) ==
    IF idx = ROUNDS - 1
    THEN RoundWordE_new_dense(RoundWordDense(val))
    ELSE RoundWordE_new(EfghVar(val), RoundWordDense(val), RoundWordSpread(val))

\* the state after a round: the new A and E, the other slots shifted by one
RotateState(idx, s, c) ==
    State_new(
        StateWord("A", NewRoundWordA(idx, NumAdd(c.a_new.lo, Shl(c.a_new.hi, 32)))),
        StateWord("B", RoundWord_new(s.a.word.dense_halves, s.a.word.spread_halves)),
        StateWord("C", s.b.word),
        StateWord("D", s.c.word.dense_halves),
        StateWord("E", NewRoundWordE(idx, NumAdd(c.e_new.lo, Shl(c.e_new.hi, 32)))),
        StateWord("F", RoundWord_new(s.e.word.dense_halves, s.e.word.spread_halves)),
        StateWord("G", s.f.word),
        StateWord("H", s.g.word.dense_halves))

RoundResult(idx, s, c) == [state |-> RotateState(idx, s, c), cells |-> c]

\* one round: the cells of the round's gates and the rotated state
assign_round(idx, s, schedule_word) ==
    LET boolean_cells == RoundBooleanCells(idx, s)
        h_prime_cells == RoundHPrimeCells(idx, s, schedule_word, boolean_cells)
        c == RoundCells(s, h_prime_cells)
    IN  IF boolean_cells.round = idx /\ h_prime_cells.round = idx /\ c.round = idx
        THEN RoundResult(idx, s, c)
        ELSE NoValue

\* the digest words: the dense value of each slot of the given state
assign_digest(s) == StateValues(s)

(***************************************************************************)
(* Spec: the caller's sequence of operations                               *)
(***************************************************************************)
Init ==
    /\ pc = "start"
    /\ msg \in Messages
    /\ blk = 0
    /\ init_state = State_empty_state
    /\ state = State_empty_state
    /\ round_idx = 0
    /\ w_halves = <<>>
    /\ cells = NoValue
    /\ digest = <<>>
    /\ ret = NoValue
    /\ invocations = 0
    /\ gop = "none"
    /\ gin = NoValue
    /\ gout = NoValue

\* message_schedule.process on the next block of the message
Process ==
    /\ pc \in {"start", "compressed"}
    /\ blk < Len(Blocks(msg))
    /\ blk' = blk + 1
    /\ w_halves' = message_schedule_process(Blocks(msg)[blk + 1])
    /\ pc' = "scheduled"
    /\ ret' = Ok("process", w_halves')
    /\ UNCHANGED <<msg, init_state, state, round_idx, cells, digest,
                   invocations, gate_vars>>

\* initialize_with_iv(IV), before the first block
InitializeWithIv ==
    /\ pc = "scheduled"
    /\ blk = 1
    /\ init_state' = initialize_iv(IV)
    /\ pc' = "initialized"
    /\ ret' = Ok("initialize_with_iv", init_state')
    /\ invocations' = 1
    /\ UNCHANGED <<msg, blk, state, round_idx, w_halves, cells, digest, gate_vars>>

\* initialize_with_state(S), S the state returned by the previous compress
InitializeWithState ==
    /\ pc = "scheduled"
    /\ blk > 1
    /\ init_state' = initialize_state(state)
    /\ pc' = "initialized"
    /\ ret' = Ok("initialize_with_state", init_state')
    /\ invocations' = 1
    /\ UNCHANGED <<msg, blk, state, round_idx, w_halves, cells, digest, gate_vars>>

\* compress: state = initialized_state.clone()
CompressBegin ==
    /\ pc = "initialized"
    /\ state' = init_state
    /\ round_idx' = 0
    /\ pc' = "compress"
    /\ invocations' = 1
    /\ UNCHANGED <<msg, blk, init_state, w_halves, cells, digest, ret, gate_vars>>

\* faulty variant of the loop body: the round also overwrites the state that
\* compress was given
AssignRound_in_place ==
    /\ pc = "compress"
    /\ round_idx < ROUNDS
    /\ LET r == assign_round(round_idx, state, w_halves[round_idx + 1])
       IN  /\ state' = r.state
           /\ init_state' = r.state
           /\ cells' = r.cells
    /\ round_idx' = round_idx + 1
    /\ UNCHANGED <<pc, msg, blk, w_halves, digest, ret, invocations, gate_vars>>

\* faulty variant of the loop body: every round is given the first round word
AssignRound_first_word ==
    /\ pc = "compress"
    /\ round_idx < ROUNDS
    /\ LET r == assign_round(round_idx, state, w_halves[1])
       IN  /\ state' = r.state
           /\ cells' = r.cells
    /\ round_idx' = round_idx + 1
    /\ UNCHANGED <<pc, msg, blk, init_state, w_halves, digest, ret,
                   invocations, gate_vars>>

\* compress: one iteration of the loop over w_halves
AssignRound ==
    /\ pc = "compress"
    /\ round_idx < ROUNDS
    /\ LET r == assign_round(round_idx, state, w_halves[round_idx + 1])
       IN  /\ state' = r.state
           /\ cells' = r.cells
    /\ round_idx' = round_idx + 1
    /\ UNCHANGED <<pc, msg, blk, init_state, w_halves, digest, ret,
                   invocations, gate_vars>>

\* faulty variant of a failing round: the error is dropped and the empty
\* placeholder state is returned
AssignRoundErr_placeholder ==
    /\ pc = "compress"
    /\ round_idx < ROUNDS
    /\ pc' = "failed"
    /\ ret' = Ok("compress", State_empty_state)
    /\ UNCHANGED <<msg, blk, init_state, state, round_idx, w_halves, cells, digest,
                   invocations, gate_vars>>

\* compress: assign_round fails in the iteration round_idx, the ? returns
\* the error from the closure and from compress
AssignRoundErr ==
    /\ pc = "compress"
    /\ round_idx < ROUNDS
    /\ pc' = "failed"
    /\ ret' = Err
    /\ UNCHANGED <<msg, blk, init_state, state, round_idx, w_halves, cells, digest,
                   invocations, gate_vars>>

\* layouter.assign_region(...)? fails in initialize_with_iv,
\* initialize_with_state, compress (outside the rounds) or digest
AssignRegionErr ==
    /\ \/ pc = "scheduled"
       \/ pc = "initialized"
       \/ pc = "compress" /\ round_idx = ROUNDS
       \/ pc = "compressed"
    /\ pc' = "failed"
    /\ ret' = Err
    /\ UNCHANGED <<msg, blk, init_state, state, round_idx, w_halves, cells, digest,
                   invocations, gate_vars>>

\* compress: Ok(state) after the last round
CompressEnd ==
    /\ pc = "compress"
    /\ round_idx = ROUNDS
    /\ pc' = "compressed"
    /\ ret' = Ok("compress", state)
    /\ UNCHANGED <<msg, blk, init_state, state, round_idx, w_halves, cells, digest,
                   invocations, gate_vars>>

\* faulty variant of the caller: digest applied to the initialized state
Digest_before_rounds ==
    /\ pc = "initialized"
    /\ digest' = assign_digest(init_state)
    /\ pc' = "done"
    /\ ret' = Ok("digest", digest')
    /\ invocations' = 1
    /\ UNCHANGED <<msg, blk, init_state, state, round_idx, w_halves, cells, gate_vars>>

\* digest(state)
Digest ==
    /\ pc = "compressed"
    /\ digest' = assign_digest(state)
    /\ pc' = "done"
    /\ ret' = Ok("digest", digest')
    /\ invocations' = 1
    /\ UNCHANGED <<msg, blk, init_state, state, round_idx, w_halves, cells,
                   gate_vars>>

Next ==
    \/ Process
    \/ InitializeWithIv
    \/ InitializeWithState
    \/ CompressBegin
    \/ AssignRound
    \/ CompressEnd
    \/ Digest
    \/ AssignRoundErr
    \/ AssignRegionErr

Spec == Init /\ [][Next]_vars

(***************************************************************************)
(* SpecReentrant: the driver under a layouter that invokes a region        *)
(* closure more than once before assign_region returns                     *)
(***************************************************************************)
MaxInvocations == 2

\* the closure of initialize_with_iv / initialize_with_state invoked again:
\* new_state = self.initialize_iv(region, init_state)?, resp. initialize_state
InitializeAgain ==
    /\ pc = "initialized"
    /\ invocations < MaxInvocations
    /\ init_state' = IF blk = 1 THEN initialize_iv(IV) ELSE initialize_state(state)
    /\ ret' = Ok(IF blk = 1 THEN "initialize_with_iv" ELSE "initialize_with_state",
                 init_state')
    /\ invocations' = invocations + 1
    /\ UNCHANGED <<pc, msg, blk, state, round_idx, w_halves, cells, digest, gate_vars>>

\* faulty variant of the closure of compress: invoked again, the loop runs
\* on from the state the previous invocation left
CompressAgain_without_reset ==
    /\ pc = "compress"
    /\ round_idx = ROUNDS
    /\ invocations < MaxInvocations
    /\ round_idx' = 0
    /\ invocations' = invocations + 1
    /\ UNCHANGED <<pc, msg, blk, init_state, state, w_halves, cells, digest, ret,
                   gate_vars>>

\* the closure of compress invoked again after it has returned Ok(()):
\* state = initialized_state.clone() and the loop starts over
CompressAgain ==
    /\ pc = "compress"
    /\ round_idx = ROUNDS
    /\ invocations < MaxInvocations
    /\ state' = init_state
    /\ round_idx' = 0
    /\ invocations' = invocations + 1
    /\ UNCHANGED <<pc, msg, blk, init_state, w_halves, cells, digest, ret, gate_vars>>

\* the closure of digest invoked again: digest = self.assign_digest(region,
\* state.clone())?
DigestAgain ==
    /\ pc = "done"
    /\ invocations < MaxInvocations
    /\ digest' = assign_digest(state)
    /\ ret' = Ok("digest", digest')
    /\ invocations' = invocations + 1
    /\ UNCHANGED <<pc, msg, blk, init_state, state, round_idx, w_halves, cells,
                   gate_vars>>

NextReentrant ==
    \/ Process
    \/ InitializeWithIv
    \/ InitializeWithState
    \/ CompressBegin
    \/ AssignRound
    \/ CompressEnd
    \/ Digest
    \/ AssignRoundErr
    \/ AssignRegionErr
    \/ InitializeAgain
    \/ CompressAgain
    \/ DigestAgain

SpecReentrant == Init /\ [][NextReentrant]_vars

(***************************************************************************)
(* SpecGate: the gate library applied to sample inputs                     *)
(***************************************************************************)
NumSamples == 6

SampleWords ==
    << <<\h0000, \h0000, \h0000, \h0000>>, <<\hffff, \hffff, \hffff, \hffff>>,
       <<\hc908, \hf3bc, \he667, \h6a09>>, <<\h0001, \h0000, \h0000, \h8000>>,
       <<\haaaa, \haaaa, \haaaa, \haaaa>>, <<\hcdef, \h89ab, \h4567, \h0123>>,
       <<\h5555, \h5555, \h5555, \h5555>>, <<\hffff, \hffff, \h0000, \h0000>>,
       <<\h82d1, \hade6, \h527f, \h510e>>, <<\h0000, \hf000, \h000f, \h0000>> >>

Samples == {Norm(SampleWords[i]) : i \in 1..Min(NumSamples, Len(SampleWords))}

OneHot(k) == Shl(One, k)

GateWords == Samples \cup {OneHot(k) : k \in 0..63}

DriverIdle ==
    /\ pc = "gate"
    /\ msg = 0
    /\ blk = 0
    /\ init_state = State_empty_state
    /\ state = State_empty_state
    /\ round_idx = 0
    /\ w_halves = <<>>
    /\ cells = NoValue
    /\ digest = <<>>
    /\ ret = NoValue
    /\ invocations = 0

AllOnes64 == <<\hffff, \hffff, \hffff, \hffff>>

\* the addend values the additive gates are tried on
AddendWords == {Zero, One, AllOnes64}

\* number of 64-bit addends of each additive gate
NumAddends(gate) ==
    CASE gate = "h_prime" -> 6
      [] gate = "a_new" -> 3
      [] gate = "e_new" -> 2

AdditiveGates == {"h_prime", "a_new", "e_new"}

\* 2^64 - (p mod 2^64), and the carry c with c * 2^64 = p + that value
WrapAddend == NumSub(Shl(One, 64), LowLimbs(FieldModulus, 4))

WrapCarry == HighLimbs(NumAdd(FieldModulus, WrapAddend), 4)

MaxForgedCarry == 6

ForgedCarries == {NumOf(k) : k \in 0..MaxForgedCarry} \cup {WrapCarry}

Repeat(x, n) == SubSeq([i \in 1..n |-> x], 1, n)

\* prover-chosen witnesses of an additive gate: addends, result and carry
ForgedWitnesses ==
    {[kind |-> "forge", gate |-> g, addends |-> ad, result |-> r, carry |-> c] :
        g \in AdditiveGates,
        ad \in {Repeat(Zero, 6), Repeat(AllOnes64, 6),
                <<WrapAddend, Zero, Zero, Zero, Zero, Zero>>},
        r \in {Zero, One, WrapAddend, NumSub(AllOnes64, NumOf(5))},
        c \in ForgedCarries}

\* a 128-bit array with odd-position bits set: none, the lowest one, or all
OddFills == {"none", "lowest", "all"}

OddFill(bits, fill) ==
    SubSeq([i \in 1..Len(bits) |->
               IF i % 2 = 1 THEN bits[i]
               ELSE \/ bits[i]
                    \/ fill = "all"
                    \/ fill = "lowest" /\ i = 2],
           1, Len(bits))

\* the spread widths of the pieces (a, b, c, d) of the two word roles
SpreadWidths(role) ==
    IF role = "abcd" THEN <<56, 12, 10, 50>> ELSE <<28, 8, 46, 46>>

\* known bit arrays for the spread pieces, spread forms and malformed ones
PieceBits ==
    {[kind |-> "bits", role |-> role,
      bits |-> OddFill(i2lebsp(spread(x, 64), 128), fill)] :
        role \in {"abcd", "efgh"}, x \in Samples, fill \in OddFills}

\* prover-chosen witnesses of a split-sum gate, each a pair of words in spread
\* form: the honest one and ways of departing from it
WitnessVariants == {"honest", "swapped", "even_flipped", "odd_zero", "halves_swapped"}

\* n with its lowest bit flipped
FlipBit0(n) == IF Limb(n, 1) % 2 = 0 THEN NumAdd(n, One) ELSE NumSub(n, One)

\* the 64-bit word with the two 32-bit halves of n exchanged
SwapHalves(n) == NumAdd(HighLimbs(n, 2), Shl(LowLimbs(n, 2), 32))

\* the (even, odd) word pair of a variant of the honest pair
WitnessVariant(variant, even, odd) ==
    CASE variant = "honest" -> [even |-> even, odd |-> odd]
      [] variant = "swapped" -> [even |-> odd, odd |-> even]
      [] variant = "even_flipped" -> [even |-> FlipBit0(even), odd |-> odd]
      [] variant = "odd_zero" -> [even |-> even, odd |-> Zero]
      [] variant = "halves_swapped" -> [even |-> SwapHalves(even), odd |-> odd]

\* the four witness cells of an (even, odd) word pair: the spread forms of the
\* 32-bit halves
WitnessCells(w) ==
    [r0_even |-> spread(LowLimbs(w.even, 2), 32),
     r1_even |-> spread(HighLimbs(w.even, 2), 32),
     r0_odd |-> spread(LowLimbs(w.odd, 2), 32),
     r1_odd |-> spread(HighLimbs(w.odd, 2), 32)]

\* prover-chosen values of the cells spread_e_neg_lo and spread_e_neg_hi
NegVariants == {"honest", "e_itself", "zero", "lo_plus_one", "hi_zero",
                "halves_exchanged"}

NegVariant(variant, neg_lo, neg_hi, spread_e_lo, spread_e_hi) ==
    CASE variant = "honest" -> [lo |-> neg_lo, hi |-> neg_hi]
      [] variant = "e_itself" -> [lo |-> spread_e_lo, hi |-> spread_e_hi]
      [] variant = "zero" -> [lo |-> Zero, hi |-> Zero]
      [] variant = "lo_plus_one" -> [lo |-> NumAdd(neg_lo, One), hi |-> neg_hi]
      [] variant = "hi_zero" -> [lo |-> neg_lo, hi |-> Zero]
      [] variant = "halves_exchanged" -> [lo |-> neg_hi, hi |-> neg_lo]

(***************************************************************************)
(* The polynomials a gate emits.  A polynomial is the pair (name, vanishes)*)
(* of its name and whether it evaluates to zero on the witness w; the      *)
(* selector of a gate is 0 or 1 on a row.                                  *)
(***************************************************************************)
CompressionGates ==
    {"s_decompose_abcd", "s_decompose_efgh", "s_upper_sigma_0", "s_upper_sigma_1",
     "s_ch", "s_ch_neg", "s_maj", "s_h_prime", "s_a_new", "s_e_new", "s_digest"}

\* Gate::range_check(value, lower_range, upper_range)
Gate_range_check(value, lower_range, upper_range) ==
    NumLeq(NumOf(lower_range), value) /\ NumLeq(value, NumOf(upper_range))

\* Gate::two_bit_spread_and_range(dense, spread)
Gate_two_bit_spread_and_range(dense, spread_form) ==
    <<<<"two_bit_range_check", Gate_range_check(dense, 0, 3)>>,
      <<"two_bit_spread_check", spread_form = spread(dense, 2)>>>>

\* Gate::three_bit_spread_and_range(dense, spread)
Gate_three_bit_spread_and_range(dense, spread_form) ==
    <<<<"three_bit_range_check", Gate_range_check(dense, 0, 7)>>,
      <<"three_bit_spread_check", spread_form = spread(dense, 3)>>>>

\* selector * poly: over the field the product is zero iff a factor is
SelectorTimes(selector, poly) == <<poly[1], selector = 0 \/ poly[2]>>

\* faulty variant of the map over a gate's polynomials: only the last
\* polynomial of the chain is multiplied by the selector
MapSelector_last_only(selector, polys) ==
    SubSeq([i \in 1..Len(polys) |->
               IF i = Len(polys) THEN SelectorTimes(selector, polys[i])
               ELSE polys[i]], 1, Len(polys))

\* .map(move |(name, poly)| (name, selector.clone() * poly))
MapSelector(selector, polys) ==
    SubSeq([i \in 1..Len(polys) |-> SelectorTimes(selector, polys[i])],
           1, Len(polys))

\* the polynomials of a gate before the multiplication by its selector
CompressionGate_checks(gate, w) ==
    CASE gate = "s_decompose_abcd" ->
            Gate_three_bit_spread_and_range(w.b_lo, w.spread_b_lo)
            \o Gate_three_bit_spread_and_range(w.b_hi, w.spread_b_hi)
            \o Gate_three_bit_spread_and_range(w.c_hi, w.spread_c_hi)
            \o Gate_two_bit_spread_and_range(w.c_lo, w.spread_c_lo)
            \o <<<<"range_check_tag_a", Gate_range_check(w.tag_a, 0, 5)>>,
                 <<"range_check_tag_d", Gate_range_check(w.tag_d, 0, 4)>>,
                 <<"dense_check",
                   s_decompose_abcd_dense_check(w.a, w.b_lo, w.b_hi, w.c_lo,
                       w.c_hi, w.d, w.word_lo, w.word_hi)>>,
                 <<"spread_check",
                   s_decompose_abcd_spread_check(w.spread_a, w.spread_b_lo,
                       w.spread_b_hi, w.spread_c_lo, w.spread_c_hi, w.spread_d,
                       w.spread_word_lo, w.spread_word_hi)>>>>
      [] gate = "s_decompose_efgh" ->
            Gate_two_bit_spread_and_range(w.b_lo, w.spread_b_lo)
            \o Gate_two_bit_spread_and_range(w.b_hi, w.spread_b_hi)
            \o <<<<"range_check_tag_a", Gate_range_check(w.tag_a, 0, 2)>>,
                 <<"range_check_tag_c", Gate_range_check(w.tag_c, 0, 3)>>,
                 <<"range_check_tag_d", Gate_range_check(w.tag_d, 0, 3)>>,
                 <<"dense_check",
                   s_decompose_efgh_dense_check(w.a, w.b_lo, w.b_hi, w.c, w.d,
                       w.word_lo, w.word_hi)>>,
                 <<"spread_check",
                   s_decompose_efgh_spread_check(w.spread_a, w.spread_b_lo,
                       w.spread_b_hi, w.spread_c, w.spread_d,
                       w.spread_word_lo, w.spread_word_hi)>>>>
      [] gate = "s_upper_sigma_0" ->
            <<<<"s_upper_sigma_0",
                s_upper_sigma_0(w.spread_r0_even, w.spread_r0_odd,
                    w.spread_r1_even, w.spread_r1_odd, w.spread_a, w.spread_b_lo,
                    w.spread_b_hi, w.spread_c_lo, w.spread_c_hi, w.spread_d)>>>>
      [] gate = "s_upper_sigma_1" ->
            <<<<"s_upper_sigma_1",
                s_upper_sigma_1(w.spread_r0_even, w.spread_r0_odd,
                    w.spread_r1_even, w.spread_r1_odd, w.spread_a, w.spread_b_lo,
                    w.spread_b_hi, w.spread_c, w.spread_d)>>>>
      [] gate = "s_ch" ->
            <<<<"s_ch",
                s_ch(w.spread_p0_even, w.spread_p0_odd, w.spread_p1_even,
                     w.spread_p1_odd, w.spread_e_lo, w.spread_e_hi,
                     w.spread_f_lo, w.spread_f_hi)>>>>
      [] gate = "s_ch_neg" ->
            <<<<"lo_check",
                FieldEq(NumAdd(w.spread_e_neg_lo, w.spread_e_lo), MASK_EVEN_64)>>,
              <<"hi_check",
                FieldEq(NumAdd(w.spread_e_neg_hi, w.spread_e_hi), MASK_EVEN_64)>>,
              <<"s_ch_neg",
                FieldEq(NumAdd(NumAdd(w.spread_e_neg_lo, w.spread_g_lo),
                               Shl(NumAdd(w.spread_e_neg_hi, w.spread_g_hi), 64)),
                        NumAdd(NumAdd(w.spread_q0_even, Shl(w.spread_q1_even, 64)),
                               Shl(NumAdd(w.spread_q0_odd,
                                          Shl(w.spread_q1_odd, 64)), 1)))>>>>
      [] gate = "s_maj" ->
            <<<<"maj",
                s_maj(w.spread_m_0_even, w.spread_m_0_odd, w.spread_m_1_even,
                      w.spread_m_1_odd, w.spread_a_lo, w.spread_a_hi,
                      w.spread_b_lo, w.spread_b_hi, w.spread_c_lo,
                      w.spread_c_hi)>>>>
      [] gate = "s_h_prime" ->
            <<<<"s_h_prime",
                s_h_prime(w.h_prime_lo, w.h_prime_hi, w.h_prime_carry,
                    w.sigma_e_lo, w.sigma_e_hi, w.ch_lo, w.ch_hi, w.ch_neg_lo,
                    w.ch_neg_hi, w.h_lo, w.h_hi, w.k_lo, w.k_hi, w.w_lo,
                    w.w_hi)>>>>
      [] gate = "s_a_new" ->
            <<<<"s_a_new",
                s_a_new(w.a_new_lo, w.a_new_hi, w.a_new_carry, w.sigma_a_lo,
                    w.sigma_a_hi, w.maj_abc_lo, w.maj_abc_hi, w.h_prime_lo,
                    w.h_prime_hi)>>>>
      [] gate = "s_e_new" ->
            <<<<"s_e_new",
                s_e_new(w.e_new_lo, w.e_new_hi, w.e_new_carry, w.d_lo, w.d_hi,
                    w.h_prime_lo, w.h_prime_hi)>>>>
      [] gate = "s_digest" ->
            <<<<"check_lo_hi_0", FieldEq(NumAdd(w.lo_0, Shl(w.hi_0, 32)), w.word_0)>>,
              <<"check_lo_hi_1", FieldEq(NumAdd(w.lo_1, Shl(w.hi_1, 32)), w.word_1)>>,
              <<"check_lo_hi_2", FieldEq(NumAdd(w.lo_2, Shl(w.hi_2, 32)), w.word_2)>>,
              <<"check_lo_hi_3", FieldEq(NumAdd(w.lo_3, Shl(w.hi_3, 32)), w.word_3)>>>>

\* the gates that chain several polynomials and map the selector over them
ChainedGates == {"s_decompose_abcd", "s_decompose_efgh", "s_ch_neg", "s_digest"}

\* the polynomials a gate emits: each one multiplied by the gate's selector
CompressionGate(gate, selector, w) ==
    LET checks == CompressionGate_checks(gate, w)
    IN  IF gate \in ChainedGates
        THEN MapSelector(selector, checks)
        ELSE <<SelectorTimes(selector, checks[1])>>

\* a row satisfies a gate when every polynomial the gate emits is zero on it
Satisfied(polys) == \A i \in 1..Len(polys) : polys[i][2]

\* the one element of a singleton set
Only(S) == CHOOSE r \in S : TRUE

\* the rows of the gates, from the cells the assignments compute
AbcdRow(g) ==
    [a |-> g.a.dense, spread_a |-> g.a.spread, tag_a |-> Zero,
     b_lo |-> g.b_lo.dense, spread_b_lo |-> g.b_lo.spread,
     b_hi |-> g.b_hi.dense, spread_b_hi |-> g.b_hi.spread,
     c_lo |-> g.c_lo.dense, spread_c_lo |-> g.c_lo.spread,
     c_hi |-> g.c_hi.dense, spread_c_hi |-> g.c_hi.spread,
     d |-> g.d.dense, spread_d |-> g.d.spread, tag_d |-> Zero,
     word_lo |-> g.word.word_lo, word_hi |-> g.word.word_hi,
     spread_word_lo |-> g.word.spread_word_lo,
     spread_word_hi |-> g.word.spread_word_hi]

EfghRow(h) ==
    [a |-> h.a.dense, spread_a |-> h.a.spread, tag_a |-> Zero,
     b_lo |-> h.b_lo.dense, spread_b_lo |-> h.b_lo.spread,
     b_hi |-> h.b_hi.dense, spread_b_hi |-> h.b_hi.spread,
     c |-> h.c.dense, spread_c |-> h.c.spread, tag_c |-> Zero,
     d |-> h.d.dense, spread_d |-> h.d.spread, tag_d |-> Zero,
     word_lo |-> h.word.word_lo, word_hi |-> h.word.word_hi,
     spread_word_lo |-> h.word.spread_word_lo,
     spread_word_hi |-> h.word.spread_word_hi]

Sigma0Row(g, c) ==
    [spread_r0_even |-> c.r0_even.spread, spread_r0_odd |-> c.r0_odd.spread,
     spread_r1_even |-> c.r1_even.spread, spread_r1_odd |-> c.r1_odd.spread,
     spread_a |-> g.a.spread, spread_b_lo |-> g.b_lo.spread,
     spread_b_hi |-> g.b_hi.spread, spread_c_lo |-> g.c_lo.spread,
     spread_c_hi |-> g.c_hi.spread, spread_d |-> g.d.spread]

Sigma1Row(h, c) ==
    [spread_r0_even |-> c.r0_even.spread, spread_r0_odd |-> c.r0_odd.spread,
     spread_r1_even |-> c.r1_even.spread, spread_r1_odd |-> c.r1_odd.spread,
     spread_a |-> h.a.spread, spread_b_lo |-> h.b_lo.spread,
     spread_b_hi |-> h.b_hi.spread, spread_c |-> h.c.spread,
     spread_d |-> h.d.spread]

ChRow(e, f, p) ==
    [spread_p0_even |-> p.r0_even.spread, spread_p0_odd |-> p.r0_odd.spread,
     spread_p1_even |-> p.r1_even.spread, spread_p1_odd |-> p.r1_odd.spread,
     spread_e_lo |-> e.spread_word_lo, spread_e_hi |-> e.spread_word_hi,
     spread_f_lo |-> f.spread_word_lo, spread_f_hi |-> f.spread_word_hi]

ChNegRow(e, g, n) ==
    [spread_q0_even |-> n.q.r0_even.spread, spread_q0_odd |-> n.q.r0_odd.spread,
     spread_q1_even |-> n.q.r1_even.spread, spread_q1_odd |-> n.q.r1_odd.spread,
     spread_e_lo |-> e.spread_word_lo, spread_e_hi |-> e.spread_word_hi,
     spread_e_neg_lo |-> n.spread_e_neg_lo, spread_e_neg_hi |-> n.spread_e_neg_hi,
     spread_g_lo |-> g.spread_word_lo, spread_g_hi |-> g.spread_word_hi]

MajRow(a, b, c, m) ==
    [spread_m_0_even |-> m.r0_even.spread, spread_m_0_odd |-> m.r0_odd.spread,
     spread_m_1_even |-> m.r1_even.spread, spread_m_1_odd |-> m.r1_odd.spread,
     spread_a_lo |-> a.spread_word_lo, spread_a_hi |-> a.spread_word_hi,
     spread_b_lo |-> b.spread_word_lo, spread_b_hi |-> b.spread_word_hi,
     spread_c_lo |-> c.spread_word_lo, spread_c_hi |-> c.spread_word_hi]

\* addends in the order (H, Ch, Ch-neg, Sigma1(E), K, W)
HPrimeRow(words, r) ==
    [h_prime_lo |-> r.lo, h_prime_hi |-> r.hi, h_prime_carry |-> r.carry,
     h_lo |-> words[1][1], h_hi |-> words[1][2],
     ch_lo |-> words[2][1], ch_hi |-> words[2][2],
     ch_neg_lo |-> words[3][1], ch_neg_hi |-> words[3][2],
     sigma_e_lo |-> words[4][1], sigma_e_hi |-> words[4][2],
     k_lo |-> words[5][1], k_hi |-> words[5][2],
     w_lo |-> words[6][1], w_hi |-> words[6][2]]

\* addends in the order (H', Maj, Sigma0(A))
ANewRow(words, r) ==
    [a_new_lo |-> r.lo, a_new_hi |-> r.hi, a_new_carry |-> r.carry,
     h_prime_lo |-> words[1][1], h_prime_hi |-> words[1][2],
     maj_abc_lo |-> words[2][1], maj_abc_hi |-> words[2][2],
     sigma_a_lo |-> words[3][1], sigma_a_hi |-> words[3][2]]

\* addends in the order (H', D)
ENewRow(words, r) ==
    [e_new_lo |-> r.lo, e_new_hi |-> r.hi, e_new_carry |-> r.carry,
     h_prime_lo |-> words[1][1], h_prime_hi |-> words[1][2],
     d_lo |-> words[2][1], d_hi |-> words[2][2]]

DigestRow(h, v) ==
    [lo_0 |-> h[1][1], hi_0 |-> h[1][2], word_0 |-> v[1],
     lo_1 |-> h[2][1], hi_1 |-> h[2][2], word_1 |-> v[2],
     lo_2 |-> h[3][1], hi_2 |-> h[3][2], word_2 |-> v[3],
     lo_3 |-> h[4][1], hi_3 |-> h[4][2], word_3 |-> v[4]]

\* the row of an additive gate on the given addends
AdditiveRow(gate, words) ==
    Only({CASE gate = "s_h_prime" -> HPrimeRow(words, r)
            [] gate = "s_a_new" -> ANewRow(words, r)
            [] gate = "s_e_new" -> ENewRow(words, r) :
          r \in {sum_with_carry(words)}})

\* the cells an honest prover assigns to a gate's row for the words x, y, z
GateCells(gate, x, y, z) ==
    CASE gate = "s_decompose_abcd" ->
            Only({AbcdRow(g) : g \in {decompose_abcd(x)}})
      [] gate = "s_decompose_efgh" ->
            Only({EfghRow(h) : h \in {decompose_efgh(x)}})
      [] gate = "s_upper_sigma_0" ->
            Only({Sigma0Row(g, c) : g \in {decompose_abcd(x)},
                                    c \in {assign_upper_sigma_0(AbcdVar(x))}})
      [] gate = "s_upper_sigma_1" ->
            Only({Sigma1Row(h, c) : h \in {decompose_efgh(x)},
                                    c \in {assign_upper_sigma_1(EfghVar(x))}})
      [] gate = "s_ch" ->
            Only({ChRow(e, f, p) :
                    e \in {WordHalves(x)}, f \in {WordHalves(y)},
                    p \in {assign_ch(RoundWordSpread(x), RoundWordSpread(y))}})
      [] gate = "s_ch_neg" ->
            Only({ChNegRow(e, g, n) :
                    e \in {WordHalves(x)}, g \in {WordHalves(z)},
                    n \in {assign_ch_neg(RoundWordSpread(x), RoundWordSpread(z))}})
      [] gate = "s_maj" ->
            Only({MajRow(a, b, c, m) :
                    a \in {WordHalves(x)}, b \in {WordHalves(y)},
                    c \in {WordHalves(z)},
                    m \in {assign_maj(RoundWordSpread(x), RoundWordSpread(y),
                                      RoundWordSpread(z))}})
      [] gate \in {"s_h_prime", "s_a_new", "s_e_new"} ->
            Only({AdditiveRow(gate, SubSeq(<<h[1], h[2], h[3], h[1], h[2], h[3]>>,
                                           1, CASE gate = "s_h_prime" -> 6
                                                [] gate = "s_a_new" -> 3
                                                [] gate = "s_e_new" -> 2)) :
                    h \in {<<HalvesOf(x), HalvesOf(y), HalvesOf(z)>>}})
      [] gate = "s_digest" ->
            Only({DigestRow(h, <<x, y, z, x>>) :
                    h \in {<<HalvesOf(x), HalvesOf(y), HalvesOf(z), HalvesOf(x)>>}})

\* the gates built from linear combinations of 128-bit magnitude
LinearGates ==
    {"s_upper_sigma_0", "s_upper_sigma_1", "s_ch", "s_ch_neg", "s_maj",
     "s_h_prime", "s_a_new", "s_e_new"}

\* the two sides of every linear combination of a gate as integers: the
\* polynomial is positive - negative, <<positive, negative>> here
GateSides(gate, w) ==
    CASE gate = "s_upper_sigma_0" ->
            LET spread_witness ==
                    NumAdd(NumAdd(w.spread_r0_even, Shl(w.spread_r0_odd, 1)),
                           Shl(NumAdd(w.spread_r1_even, Shl(w.spread_r1_odd, 1)), 64))
                xor_0 == NumSum(<<w.spread_b_lo, Shl(w.spread_b_hi, 6),
                                  Shl(w.spread_c_lo, 12), Shl(w.spread_c_hi, 18),
                                  Shl(w.spread_d, 22), Shl(w.spread_a, 72)>>)
                xor_1 == NumSum(<<w.spread_c_lo, Shl(w.spread_c_hi, 6),
                                  Shl(w.spread_d, 10), Shl(w.spread_a, 60),
                                  Shl(w.spread_b_lo, 116), Shl(w.spread_b_hi, 122)>>)
                xor_2 == NumSum(<<w.spread_d, Shl(w.spread_a, 50),
                                  Shl(w.spread_b_lo, 106), Shl(w.spread_b_hi, 112),
                                  Shl(w.spread_c_lo, 118), Shl(w.spread_c_hi, 124)>>)
            IN  <<<<spread_witness, NumSum(<<xor_0, xor_1, xor_2>>)>>>>
      [] gate = "s_upper_sigma_1" ->
            LET spread_witness ==
                    NumAdd(NumAdd(w.spread_r0_even, Shl(w.spread_r0_odd, 1)),
                           Shl(NumAdd(w.spread_r1_even, Shl(w.spread_r1_odd, 1)), 64))
                xor_0 == NumSum(<<w.spread_b_lo, Shl(w.spread_b_hi, 4),
                                  Shl(w.spread_c, 8), Shl(w.spread_d, 54),
                                  Shl(w.spread_a, 100)>>)
                xor_1 == NumSum(<<w.spread_c, Shl(w.spread_d, 46),
                                  Shl(w.spread_a, 92), Shl(w.spread_b_lo, 120),
                                  Shl(w.spread_b_hi, 124)>>)
                xor_2 == NumSum(<<w.spread_d, Shl(w.spread_a, 46),
                                  Shl(w.spread_b_lo, 74), Shl(w.spread_b_hi, 78),
                                  Shl(w.spread_c, 82)>>)
            IN  <<<<spread_witness, NumSum(<<xor_0, xor_1, xor_2>>)>>>>
      [] gate = "s_ch" ->
            <<<<NumAdd(NumAdd(w.spread_e_lo, w.spread_f_lo),
                       Shl(NumAdd(w.spread_e_hi, w.spread_f_hi), 64)),
                NumAdd(NumAdd(w.spread_p0_even, Shl(w.spread_p1_even, 64)),
                       Shl(NumAdd(w.spread_p0_odd, Shl(w.spread_p1_odd, 64)), 1))>>>>
      [] gate = "s_ch_neg" ->
            <<<<NumAdd(w.spread_e_neg_lo, w.spread_e_lo), MASK_EVEN_64>>,
              <<NumAdd(w.spread_e_neg_hi, w.spread_e_hi), MASK_EVEN_64>>,
              <<NumAdd(NumAdd(w.spread_e_neg_lo, w.spread_g_lo),
                       Shl(NumAdd(w.spread_e_neg_hi, w.spread_g_hi), 64)),
                NumAdd(NumAdd(w.spread_q0_even, Shl(w.spread_q1_even, 64)),
                       Shl(NumAdd(w.spread_q0_odd, Shl(w.spread_q1_odd, 64)), 1))>>>>
      [] gate = "s_maj" ->
            <<<<NumSum(<<NumAdd(w.spread_a_lo, Shl(w.spread_a_hi, 64)),
                         NumAdd(w.spread_b_lo, Shl(w.spread_b_hi, 64)),
                         NumAdd(w.spread_c_lo, Shl(w.spread_c_hi, 64))>>),
                NumAdd(NumAdd(w.spread_m_0_even, Shl(w.spread_m_1_even, 64)),
                       Shl(NumAdd(w.spread_m_0_odd, Shl(w.spread_m_1_odd, 64)), 1))>>>>
      [] gate = "s_h_prime" ->
            <<<<NumAdd(NumSum(<<w.h_lo, w.ch_lo, w.ch_neg_lo, w.sigma_e_lo,
                                w.k_lo, w.w_lo>>),
                       Shl(NumSum(<<w.h_hi, w.ch_hi, w.ch_neg_hi, w.sigma_e_hi,
                                    w.k_hi, w.w_hi>>), 32)),
                NumAdd(Shl(w.h_prime_carry, 64),
                       NumAdd(w.h_prime_lo, Shl(w.h_prime_hi, 32)))>>>>
      [] gate = "s_a_new" ->
            <<<<NumAdd(NumSum(<<w.sigma_a_lo, w.maj_abc_lo, w.h_prime_lo>>),
                       Shl(NumSum(<<w.sigma_a_hi, w.maj_abc_hi, w.h_prime_hi>>), 32)),
                NumAdd(Shl(w.a_new_carry, 64),
                       NumAdd(w.a_new_lo, Shl(w.a_new_hi, 32)))>>>>
      [] gate = "s_e_new" ->
            <<<<NumAdd(NumAdd(w.h_prime_lo, w.d_lo),
                       Shl(NumAdd(w.h_prime_hi, w.d_hi), 32)),
                NumAdd(Shl(w.e_new_carry, 64),
                       NumAdd(w.e_new_lo, Shl(w.e_new_hi, 32)))>>>>

\* the names of the cells of a gate's row: the gate's parameters but its
\* selector
CellNames(gate) ==
    CASE gate = "s_decompose_abcd" ->
            {"a", "spread_a", "tag_a", "b_lo", "spread_b_lo", "b_hi", "spread_b_hi",
             "c_lo", "spread_c_lo", "c_hi", "spread_c_hi", "d", "spread_d", "tag_d",
             "word_lo", "spread_word_lo", "word_hi", "spread_word_hi"}
      [] gate = "s_decompose_efgh" ->
            {"a", "spread_a", "tag_a", "b_lo", "spread_b_lo", "b_hi", "spread_b_hi",
             "c", "spread_c", "tag_c", "d", "spread_d", "tag_d",
             "word_lo", "spread_word_lo", "word_hi", "spread_word_hi"}
      [] gate = "s_upper_sigma_0" ->
            {"spread_r0_even", "spread_r0_odd", "spread_r1_even", "spread_r1_odd",
             "spread_a", "spread_b_lo", "spread_b_hi", "spread_c_lo", "spread_c_hi",
             "spread_d"}
      [] gate = "s_upper_sigma_1" ->
            {"spread_r0_even", "spread_r0_odd", "spread_r1_even", "spread_r1_odd",
             "spread_a", "spread_b_lo", "spread_b_hi", "spread_c", "spread_d"}
      [] gate = "s_ch" ->
            {"spread_p0_even", "spread_p0_odd", "spread_p1_even", "spread_p1_odd",
             "spread_e_lo", "spread_e_hi", "spread_f_lo", "spread_f_hi"}
      [] gate = "s_ch_neg" ->
            {"spread_q0_even", "spread_q0_odd", "spread_q1_even", "spread_q1_odd",
             "spread_e_lo", "spread_e_hi", "spread_e_neg_lo", "spread_e_neg_hi",
             "spread_g_lo", "spread_g_hi"}
      [] gate = "s_maj" ->
            {"spread_m_0_even", "spread_m_0_odd", "spread_m_1_even",
             "spread_m_1_odd", "spread_a_lo", "spread_a_hi", "spread_b_lo",
             "spread_b_hi", "spread_c_lo", "spread_c_hi"}
      [] gate = "s_h_prime" ->
            {"h_prime_lo", "h_prime_hi", "h_prime_carry", "sigma_e_lo", "sigma_e_hi",
             "ch_lo", "ch_hi", "ch_neg_lo", "ch_neg_hi", "h_lo", "h_hi", "k_lo",
             "k_hi", "w_lo", "w_hi"}
      [] gate = "s_a_new" ->
            {"a_new_lo", "a_new_hi", "a_new_carry", "sigma_a_lo", "sigma_a_hi",
             "maj_abc_lo", "maj_abc_hi", "h_prime_lo", "h_prime_hi"}
      [] gate = "s_e_new" ->
            {"e_new_lo", "e_new_hi", "e_new_carry", "d_lo", "d_hi", "h_prime_lo",
             "h_prime_hi"}
      [] gate = "s_digest" ->
            {"lo_0", "hi_0", "word_0", "lo_1", "hi_1", "word_1", "lo_2", "hi_2",
             "word_2", "lo_3", "hi_3", "word_3"}

\* the row with one cell changed by the prover; "none" leaves the row honest
Spoil(w, cell) ==
    IF cell = "none" THEN w ELSE [w EXCEPT ![cell] = NumAdd(@, NumOf(8))]

\* the words a selector input decomposes
SelectorWords == {SampleWords[3], SampleWords[6]}

SelectorInputs ==
    {[kind |-> "selector", gate |-> r[1], cell |-> r[2], selector |-> s, x |-> x] :
        r \in UNION {{<<gate, cell>> : cell \in CellNames(gate) \cup {"none"}} :
                        gate \in CompressionGates},
        s \in {0, 1}, x \in SelectorWords}

GateInputs ==
    {[kind |-> "word", x |-> x] : x \in GateWords}
    \cup SelectorInputs
    \cup {[kind |-> "neg_witness", x |-> x, z |-> z, variant |-> v] :
              x \in Samples, z \in Samples, v \in NegVariants}
    \cup {[kind |-> "sigma_witness", x |-> x, variant |-> v] :
              x \in GateWords, v \in WitnessVariants}
    \cup {[kind |-> "triple", x |-> x, y |-> y, z |-> z] :
              x \in Samples, y \in Samples, z \in Samples}
    \cup {[kind |-> "add", addends |-> <<a1, a2, a3, a4, a5, a6>>] :
              a1 \in AddendWords, a2 \in AddendWords, a3 \in AddendWords,
              a4 \in AddendWords, a5 \in AddendWords, a6 \in AddendWords}
    \cup ForgedWitnesses
    \cup PieceBits
    \cup {[kind |-> "value", x |-> x, known |-> k] :
              x \in Samples, k \in [1..8 -> BOOLEAN]}

InitGate ==
    /\ DriverIdle
    /\ gop = "none"
    /\ gin \in GateInputs
    /\ gout = NoValue

\* spread a word and read it back
ApplySpread ==
    /\ gop = "none" /\ gin.kind = "word"
    /\ gop' = "spread"
    /\ gout' = LET s == spread(gin.x, 64)
               IN  [spread |-> s, despread |-> despread(s, 64)]
    /\ UNCHANGED <<gin, driver_vars>>

\* decompose a word under both partitions
ApplyDecompose ==
    /\ gop = "none" /\ gin.kind = "word"
    /\ gop' = "decompose"
    /\ gout' = [abcd |-> decompose_abcd(gin.x), efgh |-> decompose_efgh(gin.x)]
    /\ UNCHANGED <<gin, driver_vars>>

\* the sigma witness of a word under both partitions
ApplySigma ==
    /\ gop = "none" /\ gin.kind = "word"
    /\ gop' = "sigma"
    /\ gout' = [sigma_0 |-> AbcdVar_xor_upper_sigma(AbcdVar(gin.x)),
                sigma_1 |-> EfghVar_xor_upper_sigma(EfghVar(gin.x))]
    /\ UNCHANGED <<gin, driver_vars>>

\* Ch(E, F, G) in its two parts, E = x, F = y, G = z
ApplyCh ==
    /\ gop = "none" /\ gin.kind = "triple"
    /\ gop' = "ch"
    /\ gout' = [e |-> WordHalves(gin.x), f |-> WordHalves(gin.y),
                g |-> WordHalves(gin.z),
                p |-> assign_ch(RoundWordSpread(gin.x), RoundWordSpread(gin.y)),
                neg |-> assign_ch_neg(RoundWordSpread(gin.x),
                                      RoundWordSpread(gin.z))]
    /\ UNCHANGED <<gin, driver_vars>>

\* Maj(A, B, C), A = x, B = y, C = z
ApplyMaj ==
    /\ gop = "none" /\ gin.kind = "triple"
    /\ gop' = "maj"
    /\ gout' = [a |-> WordHalves(gin.x), b |-> WordHalves(gin.y),
                c |-> WordHalves(gin.z),
                m |-> assign_maj(RoundWordSpread(gin.x), RoundWordSpread(gin.y),
                                 RoundWordSpread(gin.z))]
    /\ UNCHANGED <<gin, driver_vars>>

\* the honest witness of an additive gate on its first NumAddends addends
ApplyAdd(gate) ==
    /\ gop = "none" /\ gin.kind = "add"
    /\ gop' = gate
    /\ gout' = LET words == [i \in 1..NumAddends(gate) |-> HalvesOf(gin.addends[i])]
               IN  [words |-> words, res |-> sum_with_carry(words)]
    /\ UNCHANGED <<gin, driver_vars>>

\* whether an additive gate accepts given addend halves, result and carry
GateAccepts(gate, words, res_lo, res_hi, carry) ==
    CASE gate = "h_prime" ->
            s_h_prime(res_lo, res_hi, carry, words[4][1], words[4][2],
                      words[2][1], words[2][2], words[3][1], words[3][2],
                      words[1][1], words[1][2], words[5][1], words[5][2],
                      words[6][1], words[6][2])
      [] gate = "a_new" ->
            s_a_new(res_lo, res_hi, carry, words[3][1], words[3][2],
                    words[2][1], words[2][2], words[1][1], words[1][2])
      [] gate = "e_new" ->
            s_e_new(res_lo, res_hi, carry, words[2][1], words[2][2],
                    words[1][1], words[1][2])

\* the constraint check of a prover-chosen witness
ApplyForged ==
    /\ gop = "none" /\ gin.kind = "forge"
    /\ gop' = "forged"
    /\ gout' = LET words == [i \in 1..NumAddends(gin.gate) |->
                                HalvesOf(gin.addends[i])]
                   res == HalvesOf(gin.result)
               IN  [accepted |-> GateAccepts(gin.gate, words, res[1], res[2],
                                             gin.carry)]
    /\ UNCHANGED <<gin, driver_vars>>

\* a value that is known or not, as the flag says
ValueIf(flag, v) == IF flag THEN Value_known(v) ELSE Value_unknown

\* the derived values of a word whose pieces are known where gin.known says so
ApplyValue ==
    /\ gop = "none" /\ gin.kind = "value"
    /\ gop' = "value"
    /\ gout' =
         LET k == gin.known
             v == AbcdVar(gin.x)
             w == EfghVar(gin.x)
             d == RoundWordDense(gin.x)
             sp == RoundWordSpread(gin.x)
             abcd == [spread_a |-> spread_lo_hi(ValueIf(k[1], v.a_lo.spread),
                                                ValueIf(k[2], v.a_hi.spread)),
                      spread_b |-> spread_lo_hi(ValueIf(k[3], v.b_lo.spread),
                                                ValueIf(k[4], v.b_hi.spread)),
                      spread_c |-> spread_lo_hi(ValueIf(k[5], v.c_lo.spread),
                                                ValueIf(k[6], v.c_hi.spread)),
                      spread_d |-> spread_lo_hi(ValueIf(k[7], v.d_lo.spread),
                                                ValueIf(k[8], v.d_hi.spread))]
             efgh == [spread_a |-> ValueIf(k[1], w.a.spread),
                      spread_b |-> spread_lo_hi(ValueIf(k[2], w.b_lo.spread),
                                                ValueIf(k[3], w.b_hi.spread)),
                      spread_c |-> spread_lo_hi(ValueIf(k[4], w.c_lo.spread),
                                                ValueIf(k[5], w.c_hi.spread)),
                      spread_d |-> spread_lo_hi(ValueIf(k[6], w.d_lo.spread),
                                                ValueIf(k[7], w.d_hi.spread))]
         IN  [abcd |-> abcd, efgh |-> efgh,
              sigma_0 |-> UpperSigmaVar_xor_upper_sigma(abcd.spread_a,
                              abcd.spread_b, abcd.spread_c, abcd.spread_d),
              sigma_1 |-> UpperSigmaVar_xor_upper_sigma(efgh.spread_a,
                              efgh.spread_b, efgh.spread_c, efgh.spread_d),
              dense_value |-> RoundWordDense_value_zip(ValueIf(k[1], d[1]),
                                                       ValueIf(k[2], d[2])),
              spread_value |-> RoundWordSpread_value_zip(ValueIf(k[3], sp[1]),
                                                         ValueIf(k[4], sp[2]))]
    /\ UNCHANGED <<gin, driver_vars>>

\* xor_upper_sigma and RoundWordSpread::value on given piece bits
ApplyBits ==
    /\ gop = "none" /\ gin.kind = "bits"
    /\ gop' = "bits"
    /\ LET w == SpreadWidths(gin.role)
           a == SubSeq(gin.bits, 1, w[1])
           b == SubSeq(gin.bits, w[1] + 1, w[1] + w[2])
           c == SubSeq(gin.bits, w[1] + w[2] + 1, w[1] + w[2] + w[3])
           d == SubSeq(gin.bits, w[1] + w[2] + w[3] + 1, 128)
       IN  \E o \in xor_upper_sigma_outcomes(a, b, c, d) :
               gout' = [sigma |-> o,
                        spread_value |-> RoundWordSpread_value(
                            <<SubSeq(gin.bits, 1, 64), SubSeq(gin.bits, 65, 128)>>)]
    /\ UNCHANGED <<gin, driver_vars>>

\* the Sigma gates on the pieces of a decomposed word and the honest witness
ApplySigmaGate ==
    /\ gop = "none" /\ gin.kind = "word"
    /\ gop' = "sigma_gate"
    /\ gout' =
         LET g == decompose_abcd(gin.x)
             h == decompose_efgh(gin.x)
             c0 == assign_upper_sigma_0(AbcdVar(gin.x))
             c1 == assign_upper_sigma_1(EfghVar(gin.x))
         IN  [abcd |-> g, efgh |-> h, sigma_0 |-> c0, sigma_1 |-> c1,
              accept_0 |-> s_upper_sigma_0(c0.r0_even.spread, c0.r0_odd.spread,
                               c0.r1_even.spread, c0.r1_odd.spread,
                               g.a.spread, g.b_lo.spread, g.b_hi.spread,
                               g.c_lo.spread, g.c_hi.spread, g.d.spread),
              accept_1 |-> s_upper_sigma_1(c1.r0_even.spread, c1.r0_odd.spread,
                               c1.r1_even.spread, c1.r1_odd.spread,
                               h.a.spread, h.b_lo.spread, h.b_hi.spread,
                               h.c.spread, h.d.spread)]
    /\ UNCHANGED <<gin, driver_vars>>

\* s_upper_sigma_1 on the pieces of a decomposed word and a prover-chosen
\* witness in spread form
ApplySigma1Witness ==
    /\ gop = "none" /\ gin.kind = "sigma_witness"
    /\ gop' = "sigma_1_witness"
    /\ gout' =
         LET h == decompose_efgh(gin.x)
             c1 == assign_upper_sigma_1(EfghVar(gin.x))
             w == WitnessVariant(gin.variant, EvenWord(c1), OddWord(c1))
             r == WitnessCells(w)
         IN  [efgh |-> h, even |-> w.even, odd |-> w.odd, cells |-> r,
              accepted |-> s_upper_sigma_1(r.r0_even, r.r0_odd, r.r1_even,
                               r.r1_odd, h.a.spread, h.b_lo.spread,
                               h.b_hi.spread, h.c.spread, h.d.spread)]
    /\ UNCHANGED <<gin, driver_vars>>

\* s_ch_neg on E = x, G = z and prover-chosen cells for the spread of NOT E;
\* the cells q are the even/odd split of the sum the gate equates them with
ApplyChNegWitness ==
    /\ gop = "none" /\ gin.kind = "neg_witness"
    /\ gop' = "ch_neg_witness"
    /\ gout' =
         LET e == WordHalves(gin.x)
             g == WordHalves(gin.z)
             honest == assign_ch_neg(RoundWordSpread(gin.x), RoundWordSpread(gin.z))
             n == NegVariant(gin.variant, honest.spread_e_neg_lo,
                             honest.spread_e_neg_hi, e.spread_word_lo,
                             e.spread_word_hi)
             q == SpreadSumCells(
                      NumAdd(NumAdd(n.lo, Shl(n.hi, 64)),
                             NumAdd(g.spread_word_lo, Shl(g.spread_word_hi, 64))))
         IN  [e |-> e, g |-> g, spread_e_neg_lo |-> n.lo, spread_e_neg_hi |-> n.hi,
              q |-> q,
              accepted |-> s_ch_neg(q.r0_even.spread, q.r0_odd.spread,
                               q.r1_even.spread, q.r1_odd.spread,
                               e.spread_word_lo, e.spread_word_hi, n.lo, n.hi,
                               g.spread_word_lo, g.spread_word_hi)]
    /\ UNCHANGED <<gin, driver_vars>>

\* a gate with its selector set or cleared on a row whose cells the prover
\* chose, E (or A, or the first addend) = x
ApplySelector ==
    /\ gop = "none" /\ gin.kind = "selector"
    /\ gop' = "selector"
    /\ \E w \in {Spoil(GateCells(gin.gate, gin.x, SampleWords[2], SampleWords[5]),
                       gin.cell)} :
         \E polys \in {CompressionGate(gin.gate, gin.selector, w)} :
             gout' = [row |-> w, checks |-> CompressionGate_checks(gin.gate, w),
                      polys |-> polys, satisfied |-> Satisfied(polys)]
    /\ UNCHANGED <<gin, driver_vars>>

\* the linear combinations of a gate on an honest row, every word of the row
\* being x
ApplySides(gate) ==
    /\ gop = "none" /\ gin.kind = "word"
    /\ gop' = "sides"
    /\ \E w \in {GateCells(gate, gin.x, gin.x, gin.x)} :
         gout' = [gate |-> gate, row |-> w, sides |-> GateSides(gate, w),
                  checks |-> CompressionGate_checks(gate, w)]
    /\ UNCHANGED <<gin, driver_vars>>

NextGate ==
    \/ ApplySpread
    \/ ApplyDecompose
    \/ ApplySigma
    \/ ApplyCh
    \/ ApplyMaj
    \/ \E gate \in AdditiveGates : ApplyAdd(gate)
    \/ ApplyForged
    \/ ApplyValue
    \/ ApplyBits
    \/ ApplySigmaGate
    \/ ApplySigma1Witness
    \/ ApplyChNegWitness
    \/ ApplySelector
    \/ \E gate \in LinearGates : ApplySides(gate)

SpecGate == InitGate /\ [][NextGate]_vars

(***************************************************************************)
(* Claims                                                                  *)
(***************************************************************************)
\* C2: for every 64-bit x whose pieces carry their correct spread forms, the
\* even-position bits of xor_upper_sigma are ROTR28(x) XOR ROTR34(x) XOR
\* ROTR39(x) for an AbcdVar and ROTR14(x) XOR ROTR18(x) XOR ROTR41(x) for an
\* EfghVar.
C2_SigmaCorrect ==
    gop = "sigma" =>
        /\ even_bits(gout.sigma_0) = RefSigma0(i2lebsp(gin.x, 64))
        /\ even_bits(gout.sigma_1) = RefSigma1(i2lebsp(gin.x, 64))

\* C4: for every 64-bit x, the honest ABCD and EFGH decompositions satisfy
\* dense_check and spread_check, with word_lo + 2^32 * word_hi = x and
\* spread_word_lo + 2^64 * spread_word_hi = spread(x).
C4_DecomposeRoundTrip ==
    gop = "decompose" =>
        LET g == gout.abcd
            h == gout.efgh
        IN  /\ s_decompose_abcd_dense_check(g.a.dense, g.b_lo.dense, g.b_hi.dense,
                   g.c_lo.dense, g.c_hi.dense, g.d.dense,
                   g.word.word_lo, g.word.word_hi)
            /\ s_decompose_abcd_spread_check(g.a.spread, g.b_lo.spread,
                   g.b_hi.spread, g.c_lo.spread, g.c_hi.spread, g.d.spread,
                   g.word.spread_word_lo, g.word.spread_word_hi)
            /\ s_decompose_efgh_dense_check(h.a.dense, h.b_lo.dense, h.b_hi.dense,
                   h.c.dense, h.d.dense, h.word.word_lo, h.word.word_hi)
            /\ s_decompose_efgh_spread_check(h.a.spread, h.b_lo.spread,
                   h.b_hi.spread, h.c.spread, h.d.spread,
                   h.word.spread_word_lo, h.word.spread_word_hi)
            /\ NumAdd(g.word.word_lo, Shl(g.word.word_hi, 32)) = gin.x
            /\ NumAdd(g.word.spread_word_lo, Shl(g.word.spread_word_hi, 64))
                   = spread(gin.x, 64)

\* C5: for every 64-bit x, despread(spread(x)) = x, every odd position of
\* spread(x) being 0 and position 2i holding bit i of x.
C5_SpreadBijection ==
    gop = "spread" =>
        /\ gout.despread = gin.x
        /\ \A i \in 1..64 :
               /\ i2lebsp(gout.spread, 128)[2 * i - 1] = i2lebsp(gin.x, 64)[i]
               /\ ~i2lebsp(gout.spread, 128)[2 * i]

\* C3: for every triple of 64-bit words, the witness of s_ch and s_ch_neg
\* satisfies both gates and the two AND terms (the odd halves) add up to
\* (E AND F) XOR (NOT E AND G); the witness of s_maj satisfies the gate and
\* its odd half is the per-bit majority of A, B, C.
C3_ChMajCorrect ==
    /\ gop = "ch" =>
           LET p == gout.p
               q == gout.neg.q
           IN  /\ s_ch(p.r0_even.spread, p.r0_odd.spread, p.r1_even.spread,
                       p.r1_odd.spread, gout.e.spread_word_lo,
                       gout.e.spread_word_hi, gout.f.spread_word_lo,
                       gout.f.spread_word_hi)
               /\ s_ch_neg(q.r0_even.spread, q.r0_odd.spread, q.r1_even.spread,
                       q.r1_odd.spread, gout.e.spread_word_lo,
                       gout.e.spread_word_hi, gout.neg.spread_e_neg_lo,
                       gout.neg.spread_e_neg_hi, gout.g.spread_word_lo,
                       gout.g.spread_word_hi)
               /\ NumAdd(OddWord(p), OddWord(q))
                      = lebs2ip(RefCh(i2lebsp(gin.x, 64), i2lebsp(gin.y, 64),
                                      i2lebsp(gin.z, 64)))
    /\ gop = "maj" =>
           LET m == gout.m
           IN  /\ s_maj(m.r0_even.spread, m.r0_odd.spread, m.r1_even.spread,
                        m.r1_odd.spread, gout.a.spread_word_lo,
                        gout.a.spread_word_hi, gout.b.spread_word_lo,
                        gout.b.spread_word_hi, gout.c.spread_word_lo,
                        gout.c.spread_word_hi)
               /\ OddWord(m)
                      = lebs2ip(RefMaj(i2lebsp(gin.x, 64), i2lebsp(gin.y, 64),
                                       i2lebsp(gin.z, 64)))

\* C5 witness: the all-ones word has been spread and read back
C5_Witness == gop = "spread" /\ gin.x = AllOnes64 /\ gout.despread = AllOnes64

\* C2 witness: the sigma witnesses of the IV word A, with a non-zero Sigma0
C2_Witness ==
    /\ gop = "sigma"
    /\ gin.x = Norm(SampleWords[3])
    /\ lebs2ip(even_bits(gout.sigma_0)) # Zero
    /\ lebs2ip(even_bits(gout.sigma_1)) # Zero

\* C3 witness: Ch of three distinct sample words with a non-zero result
C3_Witness ==
    /\ gop = "ch"
    /\ gin.x = Norm(SampleWords[3])
    /\ gin.y = Norm(SampleWords[6])
    /\ gin.z = Norm(SampleWords[5])
    /\ OddWord(gout.p) # Zero
    /\ OddWord(gout.neg.q) # Zero

\* C4 witness: the decomposition of the IV word A, every ABCD piece non-zero
C4_Witness ==
    /\ gop = "decompose"
    /\ gin.x = Norm(SampleWords[3])
    /\ gout.abcd.a.dense # Zero
    /\ gout.abcd.c_hi.dense # Zero
    /\ gout.efgh.d.spread # Zero

\* C6 (as stated in the specification): in each additive gate the carry of the
\* honest witness lies in [0, ceil(n_addends / 2)], with H' counted as five
\* addends, A_new as three and E_new as two.
C6_CarryBoundHalf ==
    gop \in AdditiveGates =>
        LET n == CASE gop = "h_prime" -> 5 [] gop = "a_new" -> 3 [] gop = "e_new" -> 2
        IN  NumLeq(gout.res.carry, NumOf((n + 1) \div 2))

\* C6 (amended): in each additive gate the honest witness, with carry
\* floor(sum of addends / 2^64), satisfies the gate and its carry lies in
\* [0, n_addends - 1], n_addends being the gate's number of 64-bit addends
\* (H' six, A_new three, E_new two).
C6_CarryBound ==
    gop \in AdditiveGates =>
        /\ GateAccepts(gop, gout.words, gout.res.lo, gout.res.hi, gout.res.carry)
        /\ NumLeq(gout.res.carry, NumOf(NumAddends(gop) - 1))

\* C6 witness: H' of six all-ones addends, carry 5
C6_Witness ==
    /\ gop = "h_prime"
    /\ gin.addends = Repeat(AllOnes64, 6)
    /\ gout.res.carry = NumOf(5)

\* C7: in each additive gate a witness whose carry lies outside
\* [0, ceil(n_addends / 2)] is rejected by the gate, whatever in-range addend
\* halves and result halves it comes with.
C7_CarryRejected ==
    gop = "forged" =>
        LET n == CASE gin.gate = "h_prime" -> 5 [] gin.gate = "a_new" -> 3
                   [] gin.gate = "e_new" -> 2
        IN  NumLt(NumOf((n + 1) \div 2), gin.carry) => ~gout.accepted

\* C1: after initialize_with_iv(IV), compress over the round words of the
\* padded block "abc" and digest, the 8 digest words are the published SHA-512
\* hash of "abc" (ddaf35a1 93617aba ... 2a9ac94f a54ca49f).
C1_KnownAnswer ==
    (pc = "done" /\ msg = "abc") =>
        \A i \in 1..8 : digest[i] = Norm(COMPRESSION_OUTPUT[i])

\* C8: digest outputs, for each of the 8 slots, (final state word +
\* pre-compression state word) mod 2^64.
C8_DigestFeedForward ==
    pc = "done" =>
        \A i \in 1..8 :
            digest[i] = LowLimbs(NumAdd(StateValues(state)[i],
                                        StateValues(init_state)[i]), 4)

\* C9: for the compression of "abc" started from the IV, every digest word
\* added to the IV word of the same index and truncated to 64 bits equals
\* COMPRESSION_OUTPUT at that index.
C9_DigestPlusIv ==
    (pc = "done" /\ msg = "abc") =>
        \A i \in 1..8 :
            LowLimbs(NumAdd(digest[i], Norm(IV[i])), 4) = Norm(COMPRESSION_OUTPUT[i])

\* C9 witness: digest has returned the 8 words of the "abc" compression
C9_Witness ==
    /\ pc = "done"
    /\ msg = "abc"
    /\ round_idx = ROUNDS
    /\ Len(digest) = 8
    /\ digest[1] # Zero

\* C10: with S1 = compress(initialize_with_iv(IV), W1), the value
\* digest(compress(initialize_with_state(S1), W2)) is the SHA-512 digest of
\* the two-block message.
C10_Chaining ==
    (pc = "done" /\ msg = "long" /\ blk = 2) =>
        \A i \in 1..8 : digest[i] = Norm(Sha512Long[i])

\* C11: compress applies assign_round exactly 80 times, at round indices
\* 0, 1, ..., 79 in increasing order; the call at index i receives the state
\* produced by the call at index i - 1 (the initialized state for i = 0) and
\* the i-th round word, and compress returns the state produced at index 79.
C11_RoundOrder ==
    /\ [](pc = "compress" /\ round_idx > 0 => cells.round = round_idx - 1)
    /\ [](pc = "compressed" => round_idx = ROUNDS /\ cells.round = ROUNDS - 1)
    /\ [][/\ (pc = "initialized" /\ pc' = "compress") =>
                 (state' = init_state /\ round_idx' = 0)
          /\ (pc = "compress" /\ pc' = "compress") =>
                 /\ round_idx < ROUNDS
                 /\ round_idx' = round_idx + 1
                 /\ cells'.round = round_idx
                 /\ state' = assign_round(round_idx, state,
                                          w_halves[round_idx + 1]).state
          /\ (pc = "compress" /\ pc' = "compressed") =>
                 (round_idx = ROUNDS /\ state' = state)
          /\ state' # state => pc' = "compress"]_vars

\* C11 witness: compress has returned after the call at index 79
C11_Witness ==
    pc = "compressed" /\ round_idx = ROUNDS /\ cells.round = ROUNDS - 1 /\ blk = 2

C13_SlotRotation ==
    [][(pc = "compress" /\ pc' = "compress") =>
          LET o == StateValues(state)
              n == StateValues(state')
              w == w_halves[round_idx + 1]
              a == i2lebsp(o[1], 64)
              e == i2lebsp(o[5], 64)
              hp == LowLimbs(NumSum(<< o[8],
                        lebs2ip(RefCh(e, i2lebsp(o[6], 64), i2lebsp(o[7], 64))),
                        lebs2ip(RefSigma1(e)),
                        Norm(ROUND_CONSTANTS[round_idx + 1]),
                        NumAdd(w[1], Shl(w[2], 32)) >>), 4)
              maj == lebs2ip(RefMaj(a, i2lebsp(o[2], 64), i2lebsp(o[3], 64)))
              c == cells'
              hpw == <<c.h_prime.lo, c.h_prime.hi>>
          IN  /\ n[8] = o[7] /\ n[7] = o[6] /\ n[6] = o[5]
              /\ n[4] = o[3] /\ n[3] = o[2] /\ n[2] = o[1]
              /\ n[5] = LowLimbs(NumAdd(hp, o[4]), 4)
              /\ n[1] = LowLimbs(NumSum(<<hp, maj, lebs2ip(RefSigma0(a))>>), 4)
              /\ GateAccepts("a_new",
                     << hpw, <<c.maj.r0_odd.dense, c.maj.r1_odd.dense>>,
                        <<c.sigma_0.r0_even.dense, c.sigma_0.r1_even.dense>> >>,
                     c.a_new.lo, c.a_new.hi, c.a_new.carry)
              /\ GateAccepts("e_new", <<hpw, HalvesOf(o[4])>>,
                     c.e_new.lo, c.e_new.hi, c.e_new.carry)
              /\ n[1] = NumAdd(c.a_new.lo, Shl(c.a_new.hi, 32))
              /\ n[5] = NumAdd(c.e_new.lo, Shl(c.e_new.hi, 32))]_vars

\* C13 witness: after the first round of "abc" the slots B..D and F..H hold
\* the IV words A..C and E..G and A holds a new word
C13_Witness ==
    /\ pc = "compress" /\ round_idx = 1 /\ msg = "abc"
    /\ StateValues(state)[2] = Norm(IV[1])
    /\ StateValues(state)[8] = Norm(IV[7])
    /\ StateValues(state)[1] # Norm(IV[1])

\* all 8 slots of a State are Some, each holding the StateWord of its slot
Populated(s) ==
    /\ s.a # NoValue /\ s.b # NoValue /\ s.c # NoValue /\ s.d # NoValue
    /\ s.e # NoValue /\ s.f # NoValue /\ s.g # NoValue /\ s.h # NoValue
    /\ <<s.a.slot, s.b.slot, s.c.slot, s.d.slot, s.e.slot, s.f.slot, s.g.slot,
         s.h.slot>> = <<"A", "B", "C", "D", "E", "F", "G", "H">>

\* C14: the State is empty (all 8 slots None) only before initialization; the
\* State returned by initialize_with_iv, by initialize_with_state and by every
\* one of the 80 rounds has all 8 slots populated.  (When the initialization
\* itself failed, no State was returned and the caller's is still empty.)
C14_Populated ==
    /\ init_state = State_empty_state =>
           /\ blk <= 1
           /\ \/ pc \in {"start", "scheduled"}
              \/ pc = "failed" /\ ret = Err /\ state = State_empty_state
    /\ pc \in {"initialized", "compress", "compressed", "done"} =>
           Populated(init_state)
    /\ pc \in {"compress", "compressed", "done"} => Populated(state)
    /\ state # State_empty_state => Populated(state)
    /\ init_state # State_empty_state => Populated(init_state)

\* C14 witness: the state after the last round of the second block, whose
\* initial state came from initialize_with_state
C14_Witness ==
    /\ pc = "compressed" /\ blk = 2 /\ round_idx = ROUNDS
    /\ Populated(state) /\ Populated(init_state)

\* C15: no operation modifies a State value it was given: the initialized
\* state passed to compress is the same after every round and after digest,
\* initialize_with_state and digest leave the state they are given as it was,
\* and the words a round carries over to the next state are the old words.
C15_FunctionalUpdate ==
    [][/\ pc \in {"initialized", "compress", "compressed"} =>
              init_state' = init_state
       /\ (pc = "compressed" \/ (pc = "scheduled" /\ blk > 1)) => state' = state
       /\ (pc = "compress" /\ pc' = "compress") =>
              /\ state'.b.word.dense_halves = state.a.word.dense_halves
              /\ state'.b.word.spread_halves = state.a.word.spread_halves
              /\ state'.c.word = state.b.word
              /\ state'.d.word = state.c.word.dense_halves
              /\ state'.f.word.dense_halves = state.e.word.dense_halves
              /\ state'.f.word.spread_halves = state.e.word.spread_halves
              /\ state'.g.word = state.f.word
              /\ state'.h.word = state.g.word.dense_halves]_vars

\* C15 witness: after 80 rounds the state differs from the initialized state,
\* which is still the one initialize_with_iv returned
C15_Witness ==
    /\ pc = "compressed" /\ blk = 1 /\ round_idx = ROUNDS
    /\ init_state = initialize_iv(IV)
    /\ StateValues(state) # StateValues(init_state)

\* C16: every derived value (xor_upper_sigma, RoundWordDense::value,
\* RoundWordSpread::value, the spread_a..spread_d accessors) is unknown
\* whenever at least one of its inputs is unknown, is known exactly when all
\* of its inputs are known, and then holds the value computed from them.
C16_PlaceholderPropagation ==
    gop = "value" =>
        LET k == gin.known
            g == gout
        IN  /\ g.abcd.spread_a.known = (k[1] /\ k[2])
            /\ g.abcd.spread_b.known = (k[3] /\ k[4])
            /\ g.abcd.spread_c.known = (k[5] /\ k[6])
            /\ g.abcd.spread_d.known = (k[7] /\ k[8])
            /\ g.efgh.spread_a.known = k[1]
            /\ g.efgh.spread_b.known = (k[2] /\ k[3])
            /\ g.efgh.spread_c.known = (k[4] /\ k[5])
            /\ g.efgh.spread_d.known = (k[6] /\ k[7])
            /\ g.sigma_0.known = (\A i \in 1..8 : k[i])
            /\ g.sigma_1.known = (\A i \in 1..7 : k[i])
            /\ g.dense_value.known = (k[1] /\ k[2])
            /\ g.spread_value.known = (k[3] /\ k[4])
            /\ g.sigma_0.known =>
                   g.sigma_0.val = AbcdVar_xor_upper_sigma(AbcdVar(gin.x))
            /\ g.sigma_1.known =>
                   g.sigma_1.val = EfghVar_xor_upper_sigma(EfghVar(gin.x))
            /\ g.dense_value.known => g.dense_value.val = gin.x
            /\ g.spread_value.known => g.spread_value.val = spread(gin.x, 64)
            /\ \A r \in {g.sigma_0, g.sigma_1, g.dense_value, g.spread_value} :
                   ~r.known => r = Value_unknown

\* C16 witness: only the d_hi piece of an ABCD word is unknown, so spread_a to
\* spread_c and the word values are known and Sigma0 is unknown
C16_Witness ==
    /\ gop = "value"
    /\ gin.known = [i \in 1..8 |-> i # 8]
    /\ gout.abcd.spread_c.known
    /\ gout.sigma_1.known
    /\ ~gout.abcd.spread_d.known
    /\ gout.sigma_0 = Value_unknown

\* C17: when region assignment or an assign_round call fails, the operation
\* returns the error at once: no round of the same compress call and no
\* other operation follows, nothing is retried, and what is returned is the
\* error, never a State or digest (neither the empty placeholder state nor
\* the all-zero placeholder digest); a State or digest that is returned
\* comes from a run without failure and is not a placeholder.
C17_TerminalFailure ==
    /\ [](pc = "failed" => ret = Err)
    /\ [](ret # NoValue /\ ret.ok /\ ret.op \in {"initialize_with_iv",
              "initialize_with_state", "compress"} =>
             (ret.val # State_empty_state /\ Populated(ret.val)))
    /\ [](ret # NoValue /\ ret.ok /\ ret.op = "digest" =>
             (Len(ret.val) = 8 /\ \E i \in 1..8 : ret.val[i] # Zero))
    /\ [][/\ pc # "failed"
          /\ pc' = "failed" =>
                 /\ ret' = Err
                 /\ UNCHANGED <<init_state, state, round_idx, cells, digest, blk>>]_vars

\* C17 witness: assign_round failed in the middle of the second block's
\* compress, after rounds were assigned and before a digest exists
C17_Witness ==
    /\ pc = "failed"
    /\ ret = Err
    /\ blk = 2
    /\ round_idx = 40
    /\ cells.round = 39
    /\ digest = <<>>

\* C18: for every assignment of known bit arrays to the spread pieces, also
\* ones with odd-position bits set, xor_upper_sigma returns a value without
\* panicking and without overflowing, and RoundWordSpread::value returns a
\* value below 2^128.
C18_NeverFails ==
    gop = "bits" =>
        /\ ~gout.sigma.panic
        /\ ~gout.sigma.wrapped
        /\ NumLt(gout.spread_value, Shl(One, 128))

\* C18, what holds: on spread forms (no odd-position bit set) the sum fits
\* and xor_upper_sigma returns; the value accessor never overflows
C18_SpreadFormsNeverFail ==
    gop = "bits" =>
        /\ (\A i \in 1..64 : ~gin.bits[2 * i]) =>
               (~gout.sigma.panic /\ ~gout.sigma.wrapped)
        /\ NumLt(gout.spread_value, Shl(One, 128))

\* C18 witness of the failure: all odd-position bits set, the build with
\* overflow checks panics
C18_PanicReached ==
    gop = "bits" /\ gout.sigma.panic /\ (\A i \in 1..64 : gin.bits[2 * i])

\* the ranges r are contiguous from bit 0 to bit 64, pairwise disjoint, every
\* bit of [0, 64) lies in exactly one of them, their widths are the given ones
\* and each declared <dense, spread> pair is <width, 2 * width>
PiecePartition(r, widths, declared) ==
    /\ Len(r) = Len(widths) /\ Len(declared) = Len(widths)
    /\ r[1][1] = 0
    /\ r[Len(r)][2] = 64
    /\ \A i \in 1..Len(r) :
           /\ r[i][1] < r[i][2]
           /\ r[i][2] - r[i][1] = widths[i]
           /\ i > 1 => r[i][1] = r[i - 1][2]
           /\ declared[i][1] = r[i][2] - r[i][1]
           /\ declared[i][2] = 2 * declared[i][1]
    /\ \A i, j \in 1..Len(r) :
           i # j => \A bit \in 0..63 :
               ~(r[i][1] <= bit /\ bit < r[i][2] /\ r[j][1] <= bit /\ bit < r[j][2])
    /\ \A bit \in 0..63 : \E i \in 1..Len(r) : r[i][1] <= bit /\ bit < r[i][2]

RECURSIVE ConcatDense(_, _)
ConcatDense(p, i) ==
    IF i > Len(p) THEN <<>> ELSE p[i].dense \o ConcatDense(p, i + 1)

\* the pieces p of the word x have the declared dense and spread lengths and
\* their dense parts, concatenated in piece order, are the 64 bits of x
PiecesAsDeclared(p, declared, x) ==
    /\ Len(p) = Len(declared)
    /\ \A i \in 1..Len(p) :
           /\ Len(p[i].dense) = declared[i][1]
           /\ Len(p[i].spread) = declared[i][2]
    /\ ConcatDense(p, 1) = i2lebsp(x, 64)

\* C19: for both word roles the piece bit ranges are contiguous, pairwise
\* non-overlapping and cover [0, 64) without gaps, their widths are
\* (14,14,3,3,2,3,14,11) for ABCD and (14,2,2,13,10,13,10) for EFGH, and each
\* piece's declared dense width is the width of its range and half its
\* declared spread width; the pieces of a decomposed word have these lengths
\* and put together give the word back.
C19_PiecePartition ==
    /\ PiecePartition(AbcdVar_ranges, <<14, 14, 3, 3, 2, 3, 14, 11>>,
                      AbcdVar_declared)
    /\ PiecePartition(EfghVar_ranges, <<14, 2, 2, 13, 10, 13, 10>>,
                      EfghVar_declared)
    /\ gop = "decompose" =>
           LET v == AbcdVar(gin.x)
               w == EfghVar(gin.x)
           IN  /\ PiecesAsDeclared(<<v.a_lo, v.a_hi, v.b_lo, v.b_hi, v.c_lo,
                                     v.c_hi, v.d_lo, v.d_hi>>,
                                   AbcdVar_declared, gin.x)
               /\ PiecesAsDeclared(<<w.a, w.b_lo, w.b_hi, w.c_lo, w.c_hi,
                                     w.d_lo, w.d_hi>>,
                                   EfghVar_declared, gin.x)

\* C19 witness: the word 2^63 has been decomposed; its bit is the top bit of
\* the last piece of both partitions
C19_Witness ==
    /\ gop = "decompose"
    /\ gin.x = OneHot(63)
    /\ lebs2ip(AbcdVar(gin.x).d_hi.dense) = OneHot(10)
    /\ lebs2ip(EfghVar(gin.x).d_hi.dense) = OneHot(9)
    /\ gout.abcd.word.word_hi = OneHot(31)

\* the 128-bit value held by the four spread cells of a split sum
SpreadWitness(c) ==
    NumAdd(NumAdd(c.r0_even.spread, Shl(c.r0_odd.spread, 1)),
           Shl(NumAdd(c.r1_even.spread, Shl(c.r1_odd.spread, 1)), 64))

\* spread(ROTR^r1 x) + spread(ROTR^r2 x) + spread(ROTR^r3 x)
RotatedSpreadSum(x, r1, r2, r3) ==
    NumSum(<<spread(lebs2ip(ROTR(i2lebsp(x, 64), r1)), 64),
             spread(lebs2ip(ROTR(i2lebsp(x, 64), r2)), 64),
             spread(lebs2ip(ROTR(i2lebsp(x, 64), r3)), 64)>>)

\* C20: for every 64-bit x decomposed as s_decompose_abcd requires, the gate
\* s_upper_sigma_0 is satisfied by the witness spread(ROTR28 x) +
\* spread(ROTR34 x) + spread(ROTR39 x) split into even and odd halves.
C20_Sigma0GateAccepts ==
    gop = "sigma_gate" =>
        /\ SpreadWitness(gout.sigma_0) = RotatedSpreadSum(gin.x, 28, 34, 39)
        /\ s_decompose_abcd_spread_check(gout.abcd.a.spread, gout.abcd.b_lo.spread,
               gout.abcd.b_hi.spread, gout.abcd.c_lo.spread,
               gout.abcd.c_hi.spread, gout.abcd.d.spread,
               gout.abcd.word.spread_word_lo, gout.abcd.word.spread_word_hi)
        /\ gout.accept_0

\* C20, what holds: the witness is the sum of the three rotated spread words,
\* the gate s_upper_sigma_0 accepts it exactly when the piece c_hi (bits 36 to
\* 38 of x) is zero, and s_upper_sigma_1 accepts its witness for every x
C20_Sigma0GateAcceptsIffCHiZero ==
    gop = "sigma_gate" =>
        /\ SpreadWitness(gout.sigma_0) = RotatedSpreadSum(gin.x, 28, 34, 39)
        /\ SpreadWitness(gout.sigma_1) = RotatedSpreadSum(gin.x, 14, 18, 41)
        /\ gout.accept_0 = (gout.abcd.c_hi.dense = Zero)
        /\ gout.accept_1

\* C20 witness of the failure: x = 2^36, whose only set bit is the lowest bit
\* of c_hi, is rejected
C20_RejectedReached ==
    gop = "sigma_gate" /\ gin.x = OneHot(36) /\ ~gout.accept_0
\* C21: in s_upper_sigma_1, with the pieces (a 14 bits, b_lo 2, b_hi 2, c 23,
\* d 23) holding the spread forms of a 64-bit x and the four witness halves
\* valid spread forms, the gate identity holds if and only if (r0_even,
\* r1_even) is the spread form of ROTR14(x) XOR ROTR18(x) XOR ROTR41(x) and
\* (r0_odd, r1_odd) is the spread form of the per-bit carries, the majority of
\* the three rotations.
C21_Sigma1GateIff ==
    gop = "sigma_1_witness" =>
        LET bits == i2lebsp(gin.x, 64)
            xor == lebs2ip(RefSigma1(bits))
            carries == lebs2ip(RefMaj(ROTR(bits, 14), ROTR(bits, 18), ROTR(bits, 41)))
        IN  /\ gout.efgh.a.spread = spread(gout.efgh.a.dense, 14)
            /\ gout.efgh.c.spread = spread(gout.efgh.c.dense, 23)
            /\ gout.accepted <=>
                   gout.cells = WitnessCells([even |-> xor, odd |-> carries])

\* C21 witness: for the IV word E the honest witness is accepted, with
\* non-zero XOR and carry words
C21_Witness ==
    /\ gop = "sigma_1_witness"
    /\ gin.x = Norm(SampleWords[3])
    /\ gin.variant = "honest"
    /\ gout.accepted
    /\ gout.even # Zero
    /\ gout.odd # Zero

\* C21, rejection: a witness in spread form that departs from the honest one
\* is rejected
C21_ForgedRejected ==
    /\ gop = "sigma_1_witness"
    /\ gin.x = Norm(SampleWords[3])
    /\ gin.variant = "swapped"
    /\ ~gout.accepted

\* the four spread cells of a split sum
SplitCells(c) ==
    [r0_even |-> c.r0_even.spread, r1_even |-> c.r1_even.spread,
     r0_odd |-> c.r0_odd.spread, r1_odd |-> c.r1_odd.spread]

Zeros64 == i2lebsp(Zero, 64)

\* C22 (as stated in the specification): in s_ch and s_maj the witness half
\* called even, the one of weight 1 in the identity, equals spread(E AND F) in
\* s_ch and spread(Maj(A, B, C)) in s_maj.
C22_EvenHalfIsBoolean ==
    /\ gop = "ch" =>
           EvenWord(gout.p)
               = lebs2ip(RefCh(i2lebsp(gin.x, 64), i2lebsp(gin.y, 64), Zeros64))
    /\ gop = "maj" =>
           EvenWord(gout.m)
               = lebs2ip(RefMaj(i2lebsp(gin.x, 64), i2lebsp(gin.y, 64),
                                i2lebsp(gin.z, 64)))

\* C22 (amended): in s_ch and s_maj the even half has weight 1 and the odd
\* half weight 2, so the odd half is the high bit of each base-4 digit of the
\* spread sum: the witness that s_ch accepts has odd half spread(E AND F) and
\* even half spread(E XOR F), the witness that s_maj accepts has odd half
\* spread(Maj(A, B, C)) and even half spread(A XOR B XOR C); with the two
\* halves exchanged the gates accept only if the halves are equal.
C22_OddHalfIsBoolean ==
    /\ gop = "ch" =>
           LET e == i2lebsp(gin.x, 64)
               f == i2lebsp(gin.y, 64)
               p == SplitCells(gout.p)
           IN  /\ s_ch(p.r0_even, p.r0_odd, p.r1_even, p.r1_odd,
                       gout.e.spread_word_lo, gout.e.spread_word_hi,
                       gout.f.spread_word_lo, gout.f.spread_word_hi)
               /\ p = WitnessCells([even |-> lebs2ip(Xor3(e, f, Zeros64)),
                                    odd |-> lebs2ip(RefCh(e, f, Zeros64))])
               /\ s_ch(p.r0_odd, p.r0_even, p.r1_odd, p.r1_even,
                       gout.e.spread_word_lo, gout.e.spread_word_hi,
                       gout.f.spread_word_lo, gout.f.spread_word_hi)
                      <=> EvenWord(gout.p) = OddWord(gout.p)
    /\ gop = "maj" =>
           LET a == i2lebsp(gin.x, 64)
               b == i2lebsp(gin.y, 64)
               c == i2lebsp(gin.z, 64)
               m == SplitCells(gout.m)
           IN  /\ s_maj(m.r0_even, m.r0_odd, m.r1_even, m.r1_odd,
                        gout.a.spread_word_lo, gout.a.spread_word_hi,
                        gout.b.spread_word_lo, gout.b.spread_word_hi,
                        gout.c.spread_word_lo, gout.c.spread_word_hi)
               /\ m = WitnessCells([even |-> lebs2ip(Xor3(a, b, c)),
                                    odd |-> lebs2ip(RefMaj(a, b, c))])
               /\ s_maj(m.r0_odd, m.r0_even, m.r1_odd, m.r1_even,
                        gout.a.spread_word_lo, gout.a.spread_word_hi,
                        gout.b.spread_word_lo, gout.b.spread_word_hi,
                        gout.c.spread_word_lo, gout.c.spread_word_hi)
                      <=> EvenWord(gout.m) = OddWord(gout.m)

\* C22 witness: Ch of two sample words whose AND and XOR are different,
\* non-zero words
C22_Witness ==
    /\ gop = "ch"
    /\ gin.x = Norm(SampleWords[6])
    /\ gin.y = Norm(SampleWords[3])
    /\ OddWord(gout.p) # Zero
    /\ EvenWord(gout.p) # Zero
    /\ EvenWord(gout.p) # OddWord(gout.p)

\* the bitwise complement of a bit array
RefNot(bits) == SubSeq([i \in 1..Len(bits) |-> ~bits[i]], 1, Len(bits))

\* C23: for every 32-bit half e, spread(NOT e) = MASK_EVEN_64 - spread(e);
\* s_ch_neg is satisfied only if spread_e_neg_lo + spread_e_lo = MASK_EVEN_64
\* and spread_e_neg_hi + spread_e_hi = MASK_EVEN_64, so for a valid spread E
\* the only accepted spread_e_neg is the spread of the bitwise complement of
\* E, and the accepted witness of the sum identity holds NOT E AND G.
C23_NegationBySubtraction ==
    gop = "ch_neg_witness" =>
        LET e == RoundWordDense(gin.x)
            not_e_lo == spread(lebs2ip(RefNot(e[1])), 32)
            not_e_hi == spread(lebs2ip(RefNot(e[2])), 32)
        IN  /\ not_e_lo = NumSub(MASK_EVEN_64, gout.e.spread_word_lo)
            /\ not_e_hi = NumSub(MASK_EVEN_64, gout.e.spread_word_hi)
            /\ gout.accepted =>
                   /\ NumAdd(gout.spread_e_neg_lo, gout.e.spread_word_lo)
                          = MASK_EVEN_64
                   /\ NumAdd(gout.spread_e_neg_hi, gout.e.spread_word_hi)
                          = MASK_EVEN_64
            /\ gout.accepted <=>
                   /\ gout.spread_e_neg_lo = not_e_lo
                   /\ gout.spread_e_neg_hi = not_e_hi
            /\ gout.accepted =>
                   OddWord(gout.q)
                       = lebs2ip(RefCh(RefNot(i2lebsp(gin.x, 64)),
                                       i2lebsp(gin.z, 64), Zeros64))

\* C23 witness: the complement of the IV word E is accepted with a non-zero
\* NOT E AND G
C23_Witness ==
    /\ gop = "ch_neg_witness"
    /\ gin.x = Norm(SampleWords[3])
    /\ gin.z = Norm(SampleWords[6])
    /\ gin.variant = "honest"
    /\ gout.accepted
    /\ OddWord(gout.q) # Zero

\* C23, rejection: spread_e_neg_hi = 0 with the honest spread_e_neg_lo is
\* rejected
C23_ForgedRejected ==
    /\ gop = "ch_neg_witness"
    /\ gin.x = Norm(SampleWords[3])
    /\ gin.variant = "hi_zero"
    /\ ~gout.accepted

\* the integer sum of the 64-bit addends an additive gate is given
AddendSum(gate, addends) == NumSum(SubSeq(addends, 1, NumAddends(gate)))

\* C24: in s_h_prime, s_a_new and s_e_new, when every addend half and both
\* result halves lie in [0, 2^32), the gate identity holds if and only if the
\* result is the sum of the 64-bit addends mod 2^64 and the carry is
\* floor(sum / 2^64).
C24_AdditionMod64 ==
    gop = "forged" =>
        LET sum == AddendSum(gin.gate, gin.addends)
        IN  gout.accepted <=>
                /\ gin.result = LowLimbs(sum, 4)
                /\ gin.carry = HighLimbs(sum, 4)

\* C24, with the carry below 2^64 as well: the equivalence holds when the
\* carry cell is also a small integer
C24_AdditionMod64SmallCarry ==
    gop = "forged" /\ NumLeq(gin.carry, NumOf(MaxForgedCarry)) =>
        LET sum == AddendSum(gin.gate, gin.addends)
        IN  gout.accepted <=>
                /\ gin.result = LowLimbs(sum, 4)
                /\ gin.carry = HighLimbs(sum, 4)

\* C24, the accepted wrong result: s_e_new accepts the result 0 for
\* H' = 2^64 - (p mod 2^64), D = 0 with the carry (p + H') / 2^64
C24_WrongResultAccepted ==
    /\ gop = "forged"
    /\ gin.gate = "e_new"
    /\ gin.addends[1] = WrapAddend
    /\ gin.result = Zero
    /\ gin.carry = WrapCarry
    /\ gout.accepted

\* an Option that is Some: a value with more than the one field of NoValue
IsSome(v) == Cardinality(DOMAIN v) > 1

\* slot holds variant A or E built by new: pieces and spread halves present,
\* and they are the decomposition and the spread form of the dense halves
DecomposedWord(sw, slot) ==
    /\ sw.slot = slot
    /\ IsSome(sw.word.dense_halves)
    /\ IsSome(sw.word.pieces)
    /\ IsSome(sw.word.spread_halves)
    /\ LET val == RoundWordDense_value(sw.word.dense_halves)
       IN  /\ sw.word.pieces = (IF slot = "A" THEN AbcdVar(val) ELSE EfghVar(val))
           /\ sw.word.spread_halves = RoundWordSpread(val)

\* slot holds variant A or E built by new_dense: dense halves only
DenseWordAE(sw, slot) ==
    /\ sw.slot = slot
    /\ IsSome(sw.word.dense_halves)
    /\ ~IsSome(sw.word.pieces)
    /\ ~IsSome(sw.word.spread_halves)

\* slot holds variant B, C, F or G: dense and spread halves
DenseSpreadWord(sw, slot) ==
    /\ sw.slot = slot
    /\ DOMAIN sw.word = {"dense_halves", "spread_halves"}
    /\ sw.word.spread_halves
           = RoundWordSpread(RoundWordDense_value(sw.word.dense_halves))

\* slot holds variant D or H: the two 32-bit dense halves, nothing else
DenseWord(sw, slot) ==
    /\ sw.slot = slot
    /\ Len(sw.word) = 2
    /\ Len(sw.word[1]) = 32 /\ Len(sw.word[2]) = 32

\* the shapes of the slots b, c, d, f, g, h
OtherSlotShapes(s) ==
    /\ DenseSpreadWord(s.b, "B") /\ DenseSpreadWord(s.c, "C")
    /\ DenseSpreadWord(s.f, "F") /\ DenseSpreadWord(s.g, "G")
    /\ DenseWord(s.d, "D") /\ DenseWord(s.h, "H")

C25_LastRoundDense ==
    /\ pc = "compress"
    /\ round_idx = ROUNDS
    /\ DenseWordAE(state.a, "A")
    /\ DenseWordAE(state.e, "E")

\* C26: every polynomial a gate emits carries the gate's selector: with the
\* selector 0 the row satisfies the gate whatever its cells hold, and with
\* the selector 1 it satisfies the gate exactly when every sub-check holds,
\* so a row with a changed cell is rejected even when the gate's other
\* sub-checks hold.
C26_SelectorOwnership ==
    gop = "selector" =>
        LET holds == {i \in 1..Len(gout.checks) : gout.checks[i][2]}
        IN  /\ DOMAIN gout.row = CellNames(gin.gate)
            /\ Len(gout.polys) = Len(gout.checks)
            /\ gin.selector = 0 => gout.satisfied
            /\ gin.selector = 1 =>
                   (gout.satisfied <=> holds = 1..Len(gout.checks))
            /\ gin.selector = 1 /\ gin.cell # "none" => ~gout.satisfied

\* a cleared selector accepting a row of s_ch_neg whose lo_check fails while
\* hi_check and the sum check hold
C26_Witness ==
    /\ gop = "selector" /\ gin.gate = "s_ch_neg" /\ gin.selector = 0
    /\ gin.cell = "spread_e_lo"
    /\ ~gout.checks[1][2] /\ gout.checks[2][2] /\ gout.checks[3][2]
    /\ gout.satisfied

\* the same row with the selector set: one failing sub-check fails the gate
C26_PartialFailure ==
    /\ gop = "selector" /\ gin.gate = "s_ch_neg" /\ gin.selector = 1
    /\ gin.cell = "spread_e_lo"
    /\ ~gout.checks[1][2] /\ gout.checks[2][2] /\ gout.checks[3][2]
    /\ ~gout.satisfied

\* 2^128
Pow128 == Shl(One, 128)

\* every side of every linear combination of the row is below 2^128
SidesBelowPow128(sides) ==
    \A i \in 1..Len(sides) : NumLt(sides[i][1], Pow128) /\ NumLt(sides[i][2], Pow128)

\* C27: on a row whose pieces and halves are within their bit-widths and in
\* valid spread form, both sides of every linear combination of the sigma,
\* Ch, Ch-neg, Maj and additive gates are below 2^128 as integers.
C27_NoWraparound ==
    gop = "sides" => SidesBelowPow128(gout.sides)

\* C27, what holds: the sides are the ones the gates compare; every gate but
\* s_upper_sigma_0 stays below 2^128 and there integer equality decides the
\* gate; s_upper_sigma_0 stays below 2^128 when bit 38 of x, the top bit of
\* piece c_hi, is clear
C27_NoWraparoundButSigma0 ==
    gop = "sides" =>
        /\ Len(gout.sides) = Len(gout.checks)
        /\ \A i \in 1..Len(gout.sides) :
               gout.checks[i][2] = FieldEq(gout.sides[i][1], gout.sides[i][2])
        /\ gout.gate # "s_upper_sigma_0" =>
               /\ SidesBelowPow128(gout.sides)
               /\ \A i \in 1..Len(gout.sides) :
                      gout.checks[i][2] = (gout.sides[i][1] = gout.sides[i][2])
        /\ gout.gate = "s_upper_sigma_0" /\ ~i2lebsp(gin.x, 64)[39] =>
               SidesBelowPow128(gout.sides)

\* C27 witness of the failure: x = 2^38 in s_upper_sigma_0, spread_c_hi = 16
\* weighted 2^124
C27_WrapReached ==
    /\ gop = "sides" /\ gout.gate = "s_upper_sigma_0" /\ gin.x = OneHot(38)
    /\ gout.row.spread_c_hi = NumOf(16)
    /\ gout.sides[1][2] = NumSum(<<Shl(One, 128), Shl(One, 22), Shl(One, 10)>>)
    /\ ~NumLt(gout.sides[1][2], Pow128)

\* the largest honest row: every word all ones, Maj's sum being 2^128 - 1
C27_MaxReached ==
    /\ gop = "sides" /\ gout.gate = "s_maj" /\ gin.x = AllOnes64
    /\ NumAdd(gout.sides[1][1], One) = Pow128

\* a bit array in spread form: every odd position holds 0
OddPositionsZero(bits) == \A i \in 1..Len(bits) : i % 2 = 0 => ~bits[i]

\* the four pieces (a, b, c, d) a 128-bit array splits into
PiecesOf(role, bits) ==
    LET w == SpreadWidths(role)
    IN  <<SubSeq(bits, 1, w[1]), SubSeq(bits, w[1] + 1, w[1] + w[2]),
          SubSeq(bits, w[1] + w[2] + 1, w[1] + w[2] + w[3]),
          SubSeq(bits, w[1] + w[2] + w[3] + 1, 128)>>

\* the lengths of four pieces
Lengths(p) == <<Len(p[1]), Len(p[2]), Len(p[3]), Len(p[4])>>

\* C28: the spread pieces of both implementations have lengths (56, 12, 10,
\* 50) and (28, 8, 46, 46), summing to 128, so every concatenation of the four
\* is a 128-bit array; and on pieces with zeros in all odd positions the sum of
\* the three rotated values is at most 2^128 - 1: xor_upper_sigma neither
\* panics nor wraps and returns that sum.
C28_XorUpperSigmaTotal ==
    /\ gop = "sigma" =>
           LET v == AbcdVar(gin.x)
               e == EfghVar(gin.x)
               pv == <<AbcdVar_spread_a(v), AbcdVar_spread_b(v),
                       AbcdVar_spread_c(v), AbcdVar_spread_d(v)>>
               pe == <<EfghVar_spread_a(e), EfghVar_spread_b(e),
                       EfghVar_spread_c(e), EfghVar_spread_d(e)>>
           IN  /\ Lengths(pv) = <<56, 12, 10, 50>>
               /\ Lengths(pe) = <<28, 8, 46, 46>>
               /\ Len(To128(pv[2] \o pv[3] \o pv[4] \o pv[1])) = 128
               /\ Len(To128(pe[2] \o pe[3] \o pe[4] \o pe[1])) = 128
               /\ ~xor_upper_sigma_overflows(pv[1], pv[2], pv[3], pv[4])
               /\ ~xor_upper_sigma_overflows(pe[1], pe[2], pe[3], pe[4])
               /\ Len(gout.sigma_0) = 128 /\ Len(gout.sigma_1) = 128
    /\ gop = "bits" =>
           LET p == PiecesOf(gin.role, gin.bits)
               sum == NumSum(<<lebs2ip(p[2] \o p[3] \o p[4] \o p[1]),
                               lebs2ip(p[3] \o p[4] \o p[1] \o p[2]),
                               lebs2ip(p[4] \o p[1] \o p[2] \o p[3])>>)
           IN  /\ Lengths(p) = SpreadWidths(gin.role)
               /\ Len(p[1] \o p[2] \o p[3] \o p[4]) = 128
               /\ OddPositionsZero(gin.bits) =>
                      /\ ~gout.sigma.panic /\ ~gout.sigma.wrapped
                      /\ NumLeq(sum, NumSub(Shl(One, 128), One))
                      /\ lebs2ip(gout.sigma.val) = sum

\* the largest well-formed input, the spread form of the all-ones word: the
\* three rotations sum to 2^128 - 1 and the result is all ones
C28_Witness ==
    /\ gop = "bits" /\ OddPositionsZero(gin.bits)
    /\ gin.bits = i2lebsp(spread(AllOnes64, 64), 128)
    /\ ~gout.sigma.panic /\ ~gout.sigma.wrapped
    /\ gout.sigma.val = [i \in 1..128 |-> TRUE]

\* the state after the rounds idx, ..., ROUNDS - 1 applied to s in order
RECURSIVE RunRounds(_, _, _)
RunRounds(s, w, idx) ==
    IF idx = ROUNDS THEN s
    ELSE LET r == assign_round(idx, s, w[idx + 1])
         IN  IF r.cells.round = idx THEN RunRounds(r.state, w, idx + 1) ELSE s

\* C29: however many times the layouter invokes a region closure, the value
\* an operation returns is the one a single invocation computes: compress
\* returns the state reached by exactly ROUNDS rounds from the initialized
\* state, which the invocations leave unchanged; initialize_with_iv,
\* initialize_with_state and digest return the value computed from their
\* argument.
C29_ReentrantClosures ==
    /\ pc = "initialized" =>
           /\ init_state = IF blk = 1 THEN initialize_iv(IV)
                           ELSE initialize_state(state)
           /\ ret = Ok(IF blk = 1 THEN "initialize_with_iv"
                       ELSE "initialize_with_state", init_state)
    /\ pc = "compress" /\ round_idx = 0 => state = init_state
    /\ pc = "compressed" =>
           /\ ret = Ok("compress", state)
           /\ state = RunRounds(init_state, w_halves, 0)
    /\ pc = "done" =>
           /\ digest = assign_digest(state)
           /\ ret = Ok("digest", digest)

\* compress has returned after its closure was invoked more than once
C29_Witness ==
    /\ pc = "compressed" /\ invocations > 1
    /\ ret = Ok("compress", state)
    /\ state # init_state

====
